---------------------------- MODULE Spec2Model ----------------------------
(*************************************************************************)
(* The open-jobs ingestion function of flowwrk                           *)
(* (frontend/supabase/functions/fetch_open_jobs/index.ts): one HTTP      *)
(* handler that, for every (title, location) pair, calls the SerpAPI     *)
(* google_jobs search, turns each result into an open_jobs row and       *)
(* upserts it keyed on (source, source_job_id).  And the applications    *)
(* API of the browser client (src/api.ts): applicationsApi, whose calls  *)
(* read the signed-in user and query the applications table; its         *)
(* contactsApi and remindersApi; and three components of the pages: the  *)
(* Kanban Board with its optimistic status update, the AuthProvider and  *)
(* the paginated Applications list.  Each part has variables of its own  *)
(* and specifications of its own, in which the other parts are at rest.  *)
(*                                                                       *)
(* Strings are sequences of chunks; the chunk " " is one whitespace      *)
(* character and every other chunk is a run of non-blank text, so that   *)
(* trim() is computed rather than assumed.  Null stands for both null    *)
(* and undefined: the handler never tells them apart (?., ??, == null,   *)
(* truthiness).  A JSON object is a function whose DOMAIN is the set of  *)
(* keys it has.                                                          *)
(*************************************************************************)
EXTENDS Integers, Sequences, FiniteSets, TLC

VARIABLES
    inv,            \* inv[p]: the state of invocation slot p of the handler
    table,          \* the rows of the open_jobs table
    runs,           \* number of invocations started so far
    applications,   \* the rows of the applications table
    session,        \* the user supabase.auth holds a session for, if any
    call,           \* the applicationsApi call in progress or last finished
    clock,          \* number of writes to applications so far
    contacts,       \* the rows of the application_contacts table
    reminders,      \* the rows of the reminders table
    cached,         \* Board: the query data under ["apps"], undefined as <<>>
    stored,         \* Board: the user's rows of applications on the server
    appsQuery,      \* Board: the fetch of the ["apps"] query
    mutations,      \* Board: the updateStatus mutations not yet settled
    activeId,       \* Board: the card being dragged
    drops,          \* Board: the drops handled so far
    provider,       \* AuthProvider: user, session, loading, mounted
    authState,      \* the session supabase.auth holds
    getSessionCall, \* AuthProvider: the getSession() promise of the effect
    lastEvent,      \* the last auth-state-change event delivered
    listed,         \* Applications: the query data, as the ids of the rows
    filters,        \* Applications: the filters and user.showArchivedApps
    currentPage,    \* Applications: the page shown
    effectPending,  \* Applications: the snap-back effect has yet to run
    deletions,      \* Applications: deletions confirmed, the one in flight
    snapped         \* Applications: the effect has snapped the page back

\* the variables of the ingestion function, of the applications API, of the
\* contacts and reminders APIs, of the Kanban board, of the AuthProvider and
\* of the Applications page
jobVars == <<inv, table, runs>>
apiVars == <<applications, session, call, clock>>
childVars == <<contacts, reminders>>
boardVars == <<cached, stored, appsQuery, mutations, activeId, drops>>
authVars == <<provider, authState, getSessionCall, lastEvent>>
listVars == <<listed, filters, currentPage, effectPending, deletions,
             snapped>>

\* what the ingestion function, the applications API, the contacts and
\* reminders APIs, the board, the AuthProvider and the Applications page
\* never touch
besidesJob == <<apiVars, childVars, boardVars, authVars, listVars>>
besidesApi == <<jobVars, childVars, boardVars, authVars, listVars>>
besidesChildren == <<jobVars, boardVars, authVars, listVars>>
besidesBoard == <<jobVars, apiVars, childVars, authVars, listVars>>
besidesAuth == <<jobVars, apiVars, childVars, boardVars, listVars>>
besidesList == <<jobVars, apiVars, childVars, boardVars, authVars>>

vars == <<jobVars, apiVars, childVars, boardVars, authVars, listVars>>

-----------------------------------------------------------------------------
(* Bounds of the model *)

\* invocations of the handler in one behaviour
MaxRuns == 2
\* length of the jobs_results array a search may return
MaxJobs == 2

\* invocation slots; Spec runs them one at a time
Procs == {1}

-----------------------------------------------------------------------------
(* Values *)

Null == <<"<null>">>
SP == " "

\* Number.isNaN(ms): the value Date.parse gives for an unparseable string
NaN == -1

\* JS truthiness of a string-or-null value: null, undefined and "" are falsy
Truthy(v) == v # Null /\ v # <<>>

\* obj?.key
Get(obj, key) == IF key \in DOMAIN obj THEN obj[key] ELSE Null

\* a ?? b
Coalesce(a, b) == IF a # Null THEN a ELSE b

RECURSIVE TrimStart(_)
TrimStart(s) ==
    IF s # <<>> /\ Head(s) = SP THEN TrimStart(Tail(s)) ELSE s

RECURSIVE TrimEnd(_)
TrimEnd(s) ==
    IF s # <<>> /\ s[Len(s)] = SP THEN TrimEnd(SubSeq(s, 1, Len(s) - 1)) ELSE s

\* String.prototype.trim
Trim(s) == TrimEnd(TrimStart(s))

Min(a, b) == IF a < b THEN a ELSE b
Max(a, b) == IF a > b THEN a ELSE b


-----------------------------------------------------------------------------
(* Pure helpers of index.ts *)

asString(v, fallback) ==
    IF v = Null THEN fallback
    ELSE LET s == Trim(v) IN IF Len(s) > 0 THEN s ELSE fallback

\* the candidate fields of pickJobUrl, in the order the code lists them;
\* apply_link and related_link are apply_options?.[0]?.link and
\* related_links?.[0]?.link
UrlCandidates ==
    <<"job_url", "apply_link", "related_link", "share_link", "google_jobs_link">>

\* pickJobUrl without .filter(Boolean): String() of the first candidate
pickJobUrlUnfiltered(job) ==
    IF Get(job, UrlCandidates[1]) = Null THEN <<"undefined">>
    ELSE Get(job, UrlCandidates[1])

\* pickJobUrl returning the last candidate that is set instead of the first
pickJobUrlLast(job) ==
    LET all == [i \in 1..Len(UrlCandidates) |-> Get(job, UrlCandidates[i])]
        candidates == SelectSeq(all, Truthy)
    IN  IF Len(candidates) = 0 THEN Null ELSE candidates[Len(candidates)]

pickJobUrl(job) ==
    LET all == [i \in 1..Len(UrlCandidates) |-> Get(job, UrlCandidates[i])]
        candidates == SelectSeq(all, Truthy)
    IN  IF Len(candidates) = 0 THEN Null ELSE candidates[1]

\* Date.parse on the date strings of the model: three spellings of one
\* instant, one other instant, and everything else unparseable.  The time
\* value is counted in days since the epoch.
DateParse(s) ==
    CASE s = <<"2024-01-15">>               -> 19737
      [] s = <<"2024-01-15T00:00:00Z">>     -> 19737
      [] s = <<"2024-01-15T00:00:00.000Z">> -> 19737
      [] s = <<"2024-01-16">>               -> 19738
      [] s = <<"2024-01-16T00:00:00.000Z">> -> 19738
      [] OTHER                              -> NaN

\* new Date(ms).toISOString()
toISOString(ms) ==
    CASE ms = 19737 -> <<"2024-01-15T00:00:00.000Z">>
      [] ms = 19738 -> <<"2024-01-16T00:00:00.000Z">>

\* the source field parseDatePosted reads: the first that is not nullish
\* (posted_at_date, posted_at and posted are the keys of detected_extensions)
RawDatePosted(job) ==
    Coalesce(Get(job, "posted_at_date"),
             Coalesce(Get(job, "posted_at"), Get(job, "posted")))

\* parseDatePosted storing the source string as it came
parseDatePostedRaw(job) ==
    LET raw == RawDatePosted(job)
    IN  IF ~Truthy(raw) THEN Null
        ELSE IF DateParse(raw) = NaN THEN Null ELSE raw

parseDatePosted(job) ==
    LET raw == RawDatePosted(job)
    IN  IF ~Truthy(raw) THEN Null
        ELSE LET ms == DateParse(raw)
             IN  IF ms = NaN THEN Null ELSE toISOString(ms)

\* buildSourceJobId without the jid.trim().length test
buildSourceJobIdUntrimmed(job, jobUrl) ==
    IF Truthy(Get(job, "job_id")) THEN Get(job, "job_id") ELSE jobUrl

buildSourceJobId(job, jobUrl) ==
    LET jid == IF Truthy(Get(job, "job_id")) THEN Get(job, "job_id") ELSE Null
    IN  IF jid # Null /\ Len(Trim(jid)) > 0 THEN jid ELSE jobUrl

source == <<"serpapi_google_jobs">>

\* the row keyed by the native id alone, without the fallback to the URL
BuildRowNativeIdOnly(job, jobUrl, location) ==
    [ source         |-> source,
      source_job_id  |-> Get(job, "job_id"),
      serpapi_job_id |-> IF Truthy(Get(job, "job_id")) THEN Get(job, "job_id") ELSE Null,
      company        |-> asString(Coalesce(Get(job, "company_name"), Get(job, "company")),
                                  <<"Unknown">>),
      role           |-> asString(Get(job, "title"), <<"Unknown">>),
      location       |-> asString(Coalesce(Get(job, "location"), location), location),
      job_url        |-> jobUrl,
      date_posted    |-> parseDatePosted(job) ]

\* the row the handler builds for one posting of the pair's location
BuildRow(job, jobUrl, location) ==
    [ source         |-> source,
      source_job_id  |-> buildSourceJobId(job, jobUrl),
      serpapi_job_id |-> IF Truthy(Get(job, "job_id")) THEN Get(job, "job_id") ELSE Null,
      company        |-> asString(Coalesce(Get(job, "company_name"), Get(job, "company")),
                                  <<"Unknown">>),
      role           |-> asString(Get(job, "title"), <<"Unknown">>),
      location       |-> asString(Coalesce(Get(job, "location"), location), location),
      job_url        |-> jobUrl,
      date_posted    |-> parseDatePosted(job) ]

DefaultMaxResults == 25
MinMaxResults == 1
MaxMaxResults == 100

\* Math.min(Math.max(body.max_results_per_title ?? 25, 1), 100)
ClampMaxResults(body) ==
    LET given == IF "max_results_per_title" \in DOMAIN body
                 THEN body.max_results_per_title ELSE DefaultMaxResults
    IN  Min(Max(given, MinMaxResults), MaxMaxResults)

\* the row loop running over jobs instead of the slice
SliceAll(jobs, n) == jobs

\* jobs.slice(0, maxResults)
Slice(jobs, n) == SubSeq(jobs, 1, Min(Len(jobs), n))

DEFAULT_TITLES ==
    << <<"Frontend Engineer">>, <<"Backend Engineer">>, <<"Full Stack Developer">>,
       <<"Software Engineer">>, <<"Client Administrator">> >>

DEFAULT_LOCATIONS ==
    << <<"Seattle, WA, United States">>, <<"Bellevue, WA, United States">>,
       <<"Redmond, WA, United States">>, <<"Kirkland, WA, United States">>,
       <<"Everett,WA, United States">> >>

EffectiveTitles(body) ==
    IF "job_titles" \in DOMAIN body /\ Len(body.job_titles) > 0
    THEN body.job_titles ELSE DEFAULT_TITLES

NonEmpty(s) == s # <<>>

EffectiveLocations(body) ==
    IF "locations" \in DOMAIN body /\ Len(body.locations) > 0
    THEN SelectSeq([i \in 1..Len(body.locations) |-> asString(body.locations[i], <<>>)],
                   NonEmpty)
    ELSE IF Truthy(Get(body, "location")) /\ NonEmpty(asString(body.location, <<>>))
    THEN <<asString(body.location, <<>>)>>
    ELSE DEFAULT_LOCATIONS

\* the unique index on open_jobs the upsert's onConflict names
KeyOf(r) == <<r.source, r.source_job_id>>

\* the columns of a row, stored under id i
Stored(row, i) ==
    [ id |-> i,
      source |-> row.source, source_job_id |-> row.source_job_id,
      serpapi_job_id |-> row.serpapi_job_id,
      company |-> row.company, role |-> row.role,
      location |-> row.location, job_url |-> row.job_url,
      date_posted |-> row.date_posted ]

\* an insert that never meets the unique index
UpsertInsertsAlways(t, row) == t \cup {Stored(row, Cardinality(t) + 1)}

\* ignoreDuplicates: a row whose key is held is left as it was
UpsertIgnoresDuplicates(t, row) ==
    IF \E r \in t : KeyOf(r) = KeyOf(row) THEN t
    ELSE t \cup {Stored(row, Cardinality(t) + 1)}

\* an upsert whose conflict target is job_url instead of the unique index
UpsertOnJobUrl(t, row) ==
    LET hit == {r \in t : r.job_url = row.job_url}
    IN  IF hit = {}
        THEN t \cup {Stored(row, Cardinality(t) + 1)}
        ELSE (t \ hit) \cup {Stored(row, r.id) : r \in hit}

\* an upsert that deletes the row holding the key and inserts the new row
\* under a fresh id
UpsertReplacesRow(t, row) ==
    LET hit == {r \in t : KeyOf(r) = KeyOf(row)}
        ids == {r.id : r \in t}
        fresh == IF ids = {} THEN 1
                 ELSE 1 + (CHOOSE m \in ids : \A n \in ids : n <= m)
    IN  (t \ hit) \cup {Stored(row, fresh)}

\* an upsert that first clears the rows of the row's source with another key
UpsertReplacesSource(t, row) ==
    LET hit == {r \in t : KeyOf(r) = KeyOf(row)}
        rest == {r \in t : r.source # row.source}
    IN  IF hit = {}
        THEN rest \cup {Stored(row, Cardinality(t) + 1)}
        ELSE rest \cup {Stored(row, r.id) : r \in hit}

\* supabase.from("open_jobs").upsert(row, { onConflict: "source,source_job_id" }):
\* a row with the key is overwritten column by column and keeps its id,
\* otherwise the row is inserted under a fresh id
Upsert(t, row) ==
    LET hit == {r \in t : KeyOf(r) = KeyOf(row)}
    IN  IF hit = {}
        THEN t \cup {Stored(row, Cardinality(t) + 1)}
        ELSE (t \ hit) \cup {Stored(row, r.id) : r \in hit}

-----------------------------------------------------------------------------
(* The environment: requests, secrets, SerpAPI responses, storage errors *)

\* postings a search may return
P1 == [ job_id |-> <<"id1">>, job_url |-> <<"u1">>, company_name |-> <<"Acme">>,
        title |-> <<"Dev">>, location |-> <<"Seattle">>,
        posted_at_date |-> <<"2024-01-15">> ]
\* no native id, URL only in share_link, a relative posted_at
P2 == [ share_link |-> <<"u2">>, company |-> <<SP, "Beta">>,
        posted_at |-> <<"3 days ago">>, posted |-> <<"2024-01-16">> ]
\* none of the URL fields
P3 == [ job_id |-> <<"id3">>, title |-> <<"Ghost">> ]
\* the native id of P1 with other field values
P4 == [ job_id |-> <<"id1">>, apply_link |-> <<"u3">>, company_name |-> <<"Acme2">>,
        title |-> <<"Dev2">>, location |-> <<SP, "Tacoma">>,
        posted |-> <<"2024-01-16">> ]
\* a blank native id, an empty job_url before the URL of P2, an empty
\* posted_at_date before a parseable posted_at
P5 == [ job_id |-> <<SP>>, job_url |-> <<>>, related_link |-> <<"u2">>,
        google_jobs_link |-> <<"u9">>,
        title |-> <<SP>>, location |-> <<"Seattle">>, posted_at_date |-> <<>>,
        posted_at |-> <<"2024-01-15T00:00:00Z">> ]

Postings == {P1, P2, P3, P4, P5}

RECURSIVE SeqsUpTo(_, _)
SeqsUpTo(S, n) ==
    IF n = 0 THEN {<<>>}
    ELSE LET shorter == SeqsUpTo(S, n - 1)
         IN  shorter \cup {Append(q, x) : q \in shorter, x \in S}

JobLists == SeqsUpTo(Postings, MaxJobs)

BE == <<"Backend Engineer">>
QA == <<"QA Engineer">>
Seattle == <<"Seattle, WA">>
Remote == <<"Remote">>

\* the pair SerpAPI has any list of postings for
IsHot(query, location) == query = BE /\ location = Seattle

\* the pairs SerpAPI has at most one posting for
IsSparse(query, location) ==
    \/ query = BE /\ location = Remote
    \/ query = <<"Client Administrator">> /\ location = <<"Everett,WA, United States">>

\* a pair whose search may fail although SerpAPI has no postings for it;
\* every search outside these three classes succeeds with no jobs_results
IsFlaky(query, location) ==
    query = <<"Client Administrator">> /\ location = <<"Kirkland, WA, United States">>

HttpErrors == {429, 500}
FetchErrors == {<<"error sending request">>, <<"Unexpected end of JSON input">>}
StorageErrors == {<<"permission denied for table open_jobs">>}

\* what fetch(url) can come back with for a pair
Failures ==
         {[kind |-> "throws", message |-> m] : m \in FetchErrors}
    \cup {[kind |-> "http", status |-> st] : st \in HttpErrors}

Responses(query, location) ==
    {[kind |-> "json"]}
    \cup (IF IsHot(query, location) \/ IsSparse(query, location)
             \/ IsFlaky(query, location)
          THEN Failures ELSE {})
    \cup (IF IsHot(query, location)
          THEN {[kind |-> "json", jobs_results |-> js] : js \in JobLists} ELSE {})
    \cup (IF IsSparse(query, location)
          THEN {[kind |-> "json", jobs_results |-> js] : js \in SeqsUpTo(Postings, 1)}
          ELSE {})

EmptyBody == [k \in {} |-> <<>>]

\* JSON objects a POST may carry
Bodies ==
    { [ job_titles |-> <<BE>>, location |-> <<SP, "Seattle, WA", SP>>,
        max_results_per_title |-> 500 ],
      [ job_titles |-> <<BE>>,
        locations |-> << <<SP, "Seattle, WA">>, <<SP>>, Remote >>,
        max_results_per_title |-> 1 ],
      [ job_titles |-> <<QA, BE>>, locations |-> <<Remote>>,
        location |-> Seattle, max_results_per_title |-> 0 ],
      [ job_titles |-> <<>>, locations |-> << <<SP>> >>, location |-> Remote ],
      [ locations |-> <<>>, location |-> <<SP>>, max_results_per_title |-> -3 ] }

\* requests: a GET, and POSTs whose body is not JSON (req.json() throws and
\* the body is {}), is the JSON null, or is a JSON object
Requests ==
         {[method |-> "GET", json |-> "object", body |-> EmptyBody]}
    \cup {[method |-> "POST", json |-> j, body |-> EmptyBody] : j \in {"invalid", "null"}}
    \cup {[method |-> "POST", json |-> "object", body |-> b] : b \in Bodies}

\* Deno.env.get for the three secrets: unset, set to "", or set
Secret == {Null, <<>>, <<"secret">>}
Envs == [SUPABASE_URL : Secret, SUPABASE_SERVICE_ROLE_KEY : Secret, SERPAPI_KEY : Secret]

-----------------------------------------------------------------------------
(* The handler, serve(async (req) => ...), one action per step between      *)
(* awaits, and one action per answer of SerpAPI and of storage.             *)
(* requested, upsertCalls and replaced are history fields: the search       *)
(* requests and upsert calls the invocation has issued, and the rows the    *)
(* last upsert found under its key.  So are responses (SerpAPI's answers,   *)
(* in order), outstanding (calls issued and not yet answered), sent (the    *)
(* rows of the current pair handed to storage, in order) and accepted (the  *)
(* rows storage accepted, each with its place in the order in which storage *)
(* executed the upserts of all invocations).  prev is, in an invocation     *)
(* that repeats the one before it, what that one was given and left.        *)

NoResponse == [status |-> 0]
NoRow == [source |-> <<>>]
NoRes == [kind |-> "none"]
NoPrev == [run |-> 0]

\* an invocation slot with no request in it
Idle ==
    [ pc |-> "idle", req |-> [method |-> "GET", json |-> "object", body |-> EmptyBody],
      env |-> [SUPABASE_URL |-> Null, SUPABASE_SERVICE_ROLE_KEY |-> Null,
               SERPAPI_KEY |-> Null],
      body |-> EmptyBody, jobTitles |-> <<>>, locations |-> <<>>, maxResults |-> 0,
      summary |-> [ok |-> FALSE], qi |-> 0, li |-> 0, per |-> [fetched |-> 0],
      res |-> NoRes, slice |-> <<>>, ji |-> 0, row |-> NoRow, error |-> Null,
      resp |-> NoResponse,
      requested |-> <<>>, upsertCalls |-> 0, replaced |-> {},
      responses |-> <<>>, outstanding |-> 0, sent |-> <<>>, accepted |-> <<>>,
      prev |-> NoPrev ]

jsonResponse(status, body) == [status |-> status, body |-> body]

\* const summary = { ok: true, source, ... }; the elapsed time ms is left out
NewSummary(jobTitles, locations, maxResults) ==
    [ ok |-> TRUE, source |-> source,
      requested_titles |-> jobTitles, requested_locations |-> locations,
      max_results_per_title |-> maxResults,
      searched_requests |-> 0, fetched_jobs_total |-> 0,
      upsert_success |-> 0, skipped_no_url |-> 0,
      per_query_counts |-> <<>>, upsert_errors |-> <<>>, serpapi_errors |-> <<>> ]

\* const per = { query, location, fetched: 0, ... }
NewPer(query, location) ==
    [ query |-> query, location |-> location,
      fetched |-> 0, attempted |-> 0, upserted |-> 0, skipped_no_url |-> 0 ]

\* `SerpAPI HTTP ${res.status}`
HttpReason(status) ==
    CASE status = 429 -> <<"SerpAPI HTTP", "429">>
      [] status = 500 -> <<"SerpAPI HTTP", "500">>

Query(p) == inv[p].jobTitles[inv[p].qi]
Location(p) == inv[p].locations[inv[p].li]

\* the loop head reached by `continue` or by the end of the inner body:
\* the next location, or the first location of the next title
AdvancePair(i) ==
    IF i.li < Len(i.locations)
    THEN [i EXCEPT !.li = @ + 1]
    ELSE [i EXCEPT !.qi = @ + 1, !.li = 1]

\* the handler is called with a request; Spec starts an invocation only
\* when no other is running
Invoke(p) ==
    /\ inv[p].pc \in {"idle", "done"}
    /\ \A o \in DOMAIN inv : inv[o].pc \in {"idle", "done"}
    /\ runs < MaxRuns
    /\ \E r \in Requests :
         inv' = [inv EXCEPT ![p] = [Idle EXCEPT !.pc = "env", !.req = r]]
    /\ runs' = runs + 1
    /\ UNCHANGED <<table, besidesJob>>

\* the three Deno.env.get reads giving e, then
\* if (!SUPABASE_URL || !SERVICE_ROLE || !SERPAPI_KEY) return jsonResponse(500, ...)
CheckEnvWith(p, e) ==
    /\ inv[p].pc = "env"
    /\ IF ~Truthy(e.SUPABASE_URL) \/ ~Truthy(e.SUPABASE_SERVICE_ROLE_KEY)
            \/ ~Truthy(e.SERPAPI_KEY)
       THEN inv' = [inv EXCEPT ![p].pc = "done", ![p].env = e,
                      ![p].resp = jsonResponse(500,
                          [ok |-> FALSE, error |-> <<"Missing env vars">>])]
       ELSE inv' = [inv EXCEPT ![p].pc = "body", ![p].env = e]
    /\ UNCHANGED <<table, runs, besidesJob>>

CheckEnv(p) ==
    /\ inv[p].pc = "env"
    /\ \E e \in Envs : CheckEnvWith(p, e)

\* let body = {}; if (req.method === "POST") try { body = await req.json() } catch { body = {} }
\* (when req.json() gives the JSON null, body is null: BodyIsNull)
ReadBody(p) ==
    /\ inv[p].pc = "body"
    /\ LET r == inv[p].req IN
         inv' = [inv EXCEPT ![p].pc = "inputs",
                   ![p].body = IF r.method = "POST" /\ r.json = "object"
                               THEN r.body ELSE EmptyBody]
    /\ UNCHANGED <<table, runs, besidesJob>>

\* body is the JSON null: body.job_titles throws a TypeError
BodyIsNull(i) == i.req.method = "POST" /\ i.req.json = "null"

\* jobTitles, locations, maxResults and the summary; a TypeError lands in
\* the outer catch
BuildInputs(p) ==
    /\ inv[p].pc = "inputs"
    /\ IF BodyIsNull(inv[p])
       THEN inv' = [inv EXCEPT ![p].pc = "done",
                      ![p].resp = jsonResponse(500,
                          [ok |-> FALSE,
                           error |-> <<"Cannot read properties of null">>])]
       ELSE LET b == inv[p].body
                jt == EffectiveTitles(b)
                ls == EffectiveLocations(b)
                mr == ClampMaxResults(b)
            IN  inv' = [inv EXCEPT ![p].pc = "loop",
                          ![p].jobTitles = jt, ![p].locations = ls,
                          ![p].maxResults = mr,
                          ![p].summary = NewSummary(jt, ls, mr),
                          ![p].qi = 1, ![p].li = 1]
    /\ UNCHANGED <<table, runs, besidesJob>>

\* whether the two for-loops have a pair left
MorePairs(i) == i.qi <= Len(i.jobTitles) /\ i.li <= Len(i.locations)

\* summary.searched_requests += 1; const per = ...; fetch(url) is issued
BeginPair(p) ==
    /\ inv[p].pc = "loop"
    /\ MorePairs(inv[p])
    /\ inv' = [inv EXCEPT ![p].pc = "fetch",
                 ![p].summary.searched_requests = @ + 1,
                 ![p].per = NewPer(Query(p), Location(p)),
                 ![p].requested = Append(@, <<Query(p), Location(p)>>),
                 ![p].outstanding = @ + 1, ![p].sent = <<>>]
    /\ UNCHANGED <<table, runs, besidesJob>>

\* SerpAPI answers with r: await fetch(url) and await res.json() settle
FetchGives(p, r) ==
    /\ inv[p].pc = "fetch"
    /\ inv' = [inv EXCEPT ![p].pc = "fetched", ![p].res = r,
                 ![p].responses = Append(@, r), ![p].outstanding = @ - 1]
    /\ UNCHANGED <<table, runs, besidesJob>>

FetchReturns(p) ==
    /\ inv[p].pc = "fetch"
    /\ \E r \in Responses(Query(p), Location(p)) : FetchGives(p, r)

\* the failure path ending the loops instead of continuing them
PairFailedAborts(i, per, reason) ==
    [i EXCEPT !.pc = "loop",
              !.per = per,
              !.res = NoRes,
              !.summary.serpapi_errors =
                  Append(@, [query |-> i.jobTitles[i.qi],
                             location |-> i.locations[i.li],
                             reason |-> reason]),
              !.summary.per_query_counts = Append(@, per),
              !.qi = Len(i.jobTitles) + 1]

\* the failure path continuing without summary.per_query_counts.push(per)
PairFailedUncounted(i, per, reason) ==
    AdvancePair([i EXCEPT !.pc = "loop",
                   !.per = per,
                   !.res = NoRes,
                   !.summary.serpapi_errors =
                       Append(@, [query |-> i.jobTitles[i.qi],
                                  location |-> i.locations[i.li],
                                  reason |-> reason])])

\* the failure path of one pair: the error is pushed, per is pushed, continue
PairFailed(i, per, reason) ==
    AdvancePair([i EXCEPT !.pc = "loop",
                   !.per = per,
                   !.res = NoRes,
                   !.summary.serpapi_errors =
                       Append(@, [query |-> i.jobTitles[i.qi],
                                  location |-> i.locations[i.li],
                                  reason |-> reason]),
                   !.summary.per_query_counts = Append(@, per)])

\* catch (e) { per.error = e.message; ... continue }: fetch or res.json() threw
FetchThrows(p) ==
    /\ inv[p].pc = "fetched"
    /\ inv[p].res.kind = "throws"
    /\ inv' = [inv EXCEPT ![p] =
                 PairFailed(inv[p], inv[p].per @@ ("error" :> inv[p].res.message),
                            inv[p].res.message)]
    /\ UNCHANGED <<table, runs, besidesJob>>

\* if (!res.ok) { per.serpapi_http = res.status; ... continue }
FetchHttpError(p) ==
    /\ inv[p].pc = "fetched"
    /\ inv[p].res.kind = "http"
    /\ inv' = [inv EXCEPT ![p] =
                 PairFailed(inv[p], inv[p].per @@ ("serpapi_http" :> inv[p].res.status),
                            HttpReason(inv[p].res.status))]
    /\ UNCHANGED <<table, runs, besidesJob>>

\* const jobs = Array.isArray(json?.jobs_results) ? json.jobs_results : []
JobsOf(res) == IF "jobs_results" \in DOMAIN res THEN res.jobs_results ELSE <<>>

\* jobs, per.fetched, summary.fetched_jobs_total, slice
FetchOk(p) ==
    /\ inv[p].pc = "fetched"
    /\ inv[p].res.kind = "json"
    /\ LET jobs == JobsOf(inv[p].res)
       IN  inv' = [inv EXCEPT ![p].pc = "jobs",
                     ![p].per.fetched = Len(jobs),
                     ![p].summary.fetched_jobs_total = @ + Len(jobs),
                     ![p].slice = Slice(jobs, inv[p].maxResults),
                     ![p].ji = 1]
    /\ UNCHANGED <<table, runs, besidesJob>>

\* the row loop issuing the upsert without awaiting it
NextJobUnawaited(p) ==
    /\ inv[p].pc = "jobs"
    /\ inv[p].ji <= Len(inv[p].slice)
    /\ LET job == inv[p].slice[inv[p].ji]
           jobUrl == pickJobUrl(job)
       IN  IF ~Truthy(jobUrl)
           THEN inv' = [inv EXCEPT ![p].per.skipped_no_url = @ + 1,
                          ![p].summary.skipped_no_url = @ + 1,
                          ![p].ji = @ + 1]
           ELSE inv' = [inv EXCEPT ![p].row = BuildRow(job, jobUrl, Location(p)),
                          ![p].per.attempted = @ + 1,
                          ![p].upsertCalls = @ + 1,
                          ![p].outstanding = @ + 1,
                          ![p].sent = Append(@, BuildRow(job, jobUrl, Location(p))),
                          ![p].ji = @ + 1]
    /\ UNCHANGED <<table, runs, besidesJob>>

\* one posting of the slice: skipped for want of a URL, or turned into a
\* row whose upsert is issued
NextJob(p) ==
    /\ inv[p].pc = "jobs"
    /\ inv[p].ji <= Len(inv[p].slice)
    /\ LET job == inv[p].slice[inv[p].ji]
           jobUrl == pickJobUrl(job)
       IN  IF ~Truthy(jobUrl)
           THEN inv' = [inv EXCEPT ![p].per.skipped_no_url = @ + 1,
                          ![p].summary.skipped_no_url = @ + 1,
                          ![p].ji = @ + 1]
           ELSE inv' = [inv EXCEPT ![p].pc = "upsert",
                          ![p].row = BuildRow(job, jobUrl, Location(p)),
                          ![p].per.attempted = @ + 1,
                          ![p].upsertCalls = @ + 1,
                          ![p].outstanding = @ + 1,
                          ![p].sent = Append(@, BuildRow(job, jobUrl, Location(p)))]
    /\ UNCHANGED <<table, runs, besidesJob>>

\* the upserts storage has executed for the invocations in f
RECURSIVE SumAccepted(_, _)
SumAccepted(f, ps) ==
    IF ps = {} THEN 0
    ELSE LET q == CHOOSE q \in ps : TRUE
         IN  Len(f[q].accepted) + SumAccepted(f, ps \ {q})

NumAccepted(f) == SumAccepted(f, DOMAIN f)

\* storage executes the upsert and answers { error: null }
StorageAccepts(p) ==
    /\ inv[p].pc = "upsert"
    /\ table' = Upsert(table, inv[p].row)
    /\ inv' = [inv EXCEPT ![p].pc = "upserted", ![p].error = Null,
                 ![p].replaced = {r \in table : KeyOf(r) = KeyOf(inv[p].row)},
                 ![p].outstanding = @ - 1,
                 ![p].accepted = Append(@, [row |-> inv[p].row,
                                            at |-> NumAccepted(inv) + 1])]
    /\ UNCHANGED <<runs, besidesJob>>

\* storage rejects the upsert and answers { error }
StorageRejects(p) ==
    /\ inv[p].pc = "upsert"
    /\ \E m \in StorageErrors :
         inv' = [inv EXCEPT ![p].pc = "upserted", ![p].error = m,
                   ![p].replaced = {}, ![p].outstanding = @ - 1]
    /\ UNCHANGED <<table, runs, besidesJob>>

\* per.upserted += 1; summary.upsert_success += 1
UpsertOk(p) ==
    /\ inv[p].pc = "upserted"
    /\ inv[p].error = Null
    /\ inv' = [inv EXCEPT ![p].pc = "jobs",
                 ![p].per.upserted = @ + 1,
                 ![p].summary.upsert_success = @ + 1,
                 ![p].row = NoRow, ![p].replaced = {},
                 ![p].ji = @ + 1]
    /\ UNCHANGED <<table, runs, besidesJob>>

\* the error branch leaving the row loop (break) instead of continuing it
UpsertErrorBreaks(p) ==
    /\ inv[p].pc = "upserted"
    /\ inv[p].error # Null
    /\ inv' = [inv EXCEPT ![p].pc = "jobs",
                 ![p].summary.upsert_errors =
                     Append(@, [query |-> Query(p), location |-> Location(p),
                                role |-> inv[p].row.role,
                                company |-> inv[p].row.company,
                                reason |-> inv[p].error]),
                 ![p].row = NoRow, ![p].error = Null,
                 ![p].ji = Len(inv[p].slice) + 1]
    /\ UNCHANGED <<table, runs, besidesJob>>

\* the error branch counting the rejected row as upserted
UpsertErrorCounted(p) ==
    /\ inv[p].pc = "upserted"
    /\ inv[p].error # Null
    /\ inv' = [inv EXCEPT ![p].pc = "jobs",
                 ![p].per.upserted = @ + 1,
                 ![p].summary.upsert_errors =
                     Append(@, [query |-> Query(p), location |-> Location(p),
                                role |-> inv[p].row.role,
                                company |-> inv[p].row.company,
                                reason |-> inv[p].error]),
                 ![p].row = NoRow, ![p].error = Null,
                 ![p].ji = @ + 1]
    /\ UNCHANGED <<table, runs, besidesJob>>

\* the error branch issuing the rejected upsert again
UpsertErrorRetries(p) ==
    /\ inv[p].pc = "upserted"
    /\ inv[p].error # Null
    /\ inv' = [inv EXCEPT ![p].pc = "upsert", ![p].error = Null,
                 ![p].outstanding = @ + 1]
    /\ UNCHANGED <<table, runs, besidesJob>>

\* if (error) { summary.upsert_errors.push(...); continue }
UpsertError(p) ==
    /\ inv[p].pc = "upserted"
    /\ inv[p].error # Null
    /\ inv' = [inv EXCEPT ![p].pc = "jobs",
                 ![p].summary.upsert_errors =
                     Append(@, [query |-> Query(p), location |-> Location(p),
                                role |-> inv[p].row.role,
                                company |-> inv[p].row.company,
                                reason |-> inv[p].error]),
                 ![p].row = NoRow, ![p].error = Null,
                 ![p].ji = @ + 1]
    /\ UNCHANGED <<table, runs, besidesJob>>

\* the slice is exhausted: summary.per_query_counts.push(per)
EndPair(p) ==
    /\ inv[p].pc = "jobs"
    /\ inv[p].ji > Len(inv[p].slice)
    /\ inv' = [inv EXCEPT ![p] =
                 AdvancePair([inv[p] EXCEPT !.pc = "loop",
                                !.summary.per_query_counts = Append(@, inv[p].per),
                                !.res = NoRes, !.slice = <<>>, !.ji = 0])]
    /\ UNCHANGED <<table, runs, besidesJob>>

\* both loops are over: return jsonResponse(200, summary)
Return(p) ==
    /\ inv[p].pc = "loop"
    /\ ~MorePairs(inv[p])
    /\ inv' = [inv EXCEPT ![p].pc = "done",
                 ![p].resp = jsonResponse(200, inv[p].summary)]
    /\ UNCHANGED <<table, runs, besidesJob>>

\* no user is signed in
NoUser == "none"

\* no applicationsApi call has been made
NoCall ==
    [ pc |-> "idle", op |-> "none", id |-> 0, arg |-> EmptyBody, userId |-> NoUser,
      content |-> <<>>, totalElements |-> 0, totalPages |-> 0, error |-> Null ]

\* the ingestion function has not been invoked
JobAtRest ==
    /\ inv = [p \in Procs |-> Idle]
    /\ table = {}
    /\ runs = 0

\* the applications API has not been used
ApiAtRest ==
    /\ applications = {}
    /\ session = NoUser
    /\ call = NoCall
    /\ clock = 0

\* no contact and no reminder has been stored
ChildrenAtRest ==
    /\ contacts = {}
    /\ reminders = {}

\* no session, undefined query data, no card
NoSession == "none"
NoData == <<>>
NoCard == "none"

\* the Kanban board is not mounted
BoardAtRest ==
    /\ cached = NoData
    /\ stored = {}
    /\ appsQuery = [pc |-> "idle", data |-> NoData]
    /\ mutations = {}
    /\ activeId = NoCard
    /\ drops = 0

\* the AuthProvider is not mounted
AuthAtRest ==
    /\ provider = [user |-> NoUser, session |-> NoSession, loading |-> TRUE,
                   mounted |-> FALSE]
    /\ authState = NoSession
    /\ getSessionCall = [pc |-> "none", session |-> NoSession, after |-> 0]
    /\ lastEvent = [n |-> 0, session |-> NoSession]

\* the Applications page is not mounted
ListAtRest ==
    /\ listed = {}
    /\ filters = [searchQuery |-> <<>>, statusFilter |-> "ALL",
                  priorityFilter |-> "ALL", showArchivedApps |-> FALSE]
    /\ currentPage = 1
    /\ effectPending = FALSE
    /\ deletions = [n |-> 0, pending |-> 0]
    /\ snapped = FALSE

\* the browser client is not in use
ClientAtRest ==
    /\ ChildrenAtRest
    /\ BoardAtRest
    /\ AuthAtRest
    /\ ListAtRest

Init ==
    /\ inv = [p \in Procs |-> Idle]
    /\ table = {}
    /\ runs = 0
    /\ ApiAtRest
    /\ ClientAtRest

Next ==
    \E p \in Procs :
        \/ Invoke(p)
        \/ CheckEnv(p)
        \/ ReadBody(p)
        \/ BuildInputs(p)
        \/ BeginPair(p)
        \/ FetchReturns(p)
        \/ FetchThrows(p)
        \/ FetchHttpError(p)
        \/ FetchOk(p)
        \/ NextJob(p)
        \/ StorageAccepts(p)
        \/ StorageRejects(p)
        \/ UpsertOk(p)
        \/ UpsertError(p)
        \/ EndPair(p)
        \/ Return(p)

Spec == Init /\ [][Next]_vars

-----------------------------------------------------------------------------
(* Two invocations of the handler at the same time.  The platform starts a  *)
(* handler call per request and nothing in index.ts keeps a second request  *)
(* from arriving while the first awaits SerpAPI or storage; both see the    *)
(* secrets of the one deployment and write the one open_jobs table.         *)
(* Storage executes each upsert (one INSERT ... ON CONFLICT DO UPDATE       *)
(* statement) atomically.                                                   *)

Overlapping == {1, 2}

Configured ==
    [ SUPABASE_URL |-> <<"secret">>, SUPABASE_SERVICE_ROLE_KEY |-> <<"secret">>,
      SERPAPI_KEY |-> <<"secret">> ]

\* the requests of overlapping invocations: the bodies of Bodies searching
\* "Backend Engineer" in "Seattle, WA"
OverlappingRequests ==
    {r \in Requests : r.method = "POST" /\ r.json = "object"
                        /\ EffectiveTitles(r.body) = <<BE>>
                        /\ EffectiveLocations(r.body)[1] = Seattle}

\* what the searches of overlapping invocations return: lists in which the
\* postings sharing a key (P1 and P4, P2 and P5) come in both orders
OverlappingJobLists == {<<P1, P2>>, <<P4, P5>>, <<P5, P4>>, <<P2, P1>>}

OverlappingResponses(query, location) ==
    IF IsHot(query, location)
    THEN Failures \cup {[kind |-> "json", jobs_results |-> js] : js \in OverlappingJobLists}
    ELSE {[kind |-> "json"]}

\* a request arrives whatever the other invocation is doing
InvokeOverlapping(p) ==
    /\ inv[p].pc = "idle"
    /\ \E r \in OverlappingRequests :
         inv' = [inv EXCEPT ![p] = [Idle EXCEPT !.pc = "env", !.req = r]]
    /\ runs' = runs + 1
    /\ UNCHANGED <<table, besidesJob>>

CheckEnvConfigured(p) ==
    /\ inv[p].pc = "env"
    /\ CheckEnvWith(p, Configured)

FetchReturnsOverlapping(p) ==
    /\ inv[p].pc = "fetch"
    /\ \E r \in OverlappingResponses(Query(p), Location(p)) : FetchGives(p, r)

InitOverlapping ==
    /\ inv = [p \in Overlapping |-> Idle]
    /\ table = {}
    /\ runs = 0
    /\ ApiAtRest
    /\ ClientAtRest

NextOverlapping ==
    \E p \in Overlapping :
        \/ InvokeOverlapping(p)
        \/ CheckEnvConfigured(p)
        \/ ReadBody(p)
        \/ BuildInputs(p)
        \/ BeginPair(p)
        \/ FetchReturnsOverlapping(p)
        \/ FetchThrows(p)
        \/ FetchHttpError(p)
        \/ FetchOk(p)
        \/ NextJob(p)
        \/ StorageAccepts(p)
        \/ StorageRejects(p)
        \/ UpsertOk(p)
        \/ UpsertError(p)
        \/ EndPair(p)
        \/ Return(p)

SpecOverlapping == InitOverlapping /\ [][NextOverlapping]_vars

-----------------------------------------------------------------------------
(* The job run again: after an invocation has returned, the handler is      *)
(* called with the same request, reads the same secrets, and SerpAPI gives  *)
(* each pair the response it gave in the run before.  The first run starts  *)
(* on an empty table or on one that earlier runs filled.                    *)

\* open_jobs after an earlier run wrote the rows of P4 and P2
PriorTable ==
    Upsert(Upsert({}, BuildRow(P4, pickJobUrl(P4), Seattle)),
           BuildRow(P2, pickJobUrl(P2), Seattle))

IsRepeat(i) == i.prev.run > 0

InvokeFirst(p) ==
    /\ inv[p].pc = "idle"
    /\ Invoke(p)

\* the request of the returned invocation arrives again
InvokeAgain(p) ==
    /\ inv[p].pc = "done"
    /\ runs < MaxRuns
    /\ inv' = [inv EXCEPT ![p] =
                 [Idle EXCEPT !.pc = "env", !.req = inv[p].req,
                              !.prev = [ run |-> inv[p].prev.run + 1,
                                         env |-> inv[p].env,
                                         responses |-> inv[p].responses,
                                         clean |-> inv[p].upsertCalls
                                                     = Len(inv[p].accepted),
                                         table |-> table ]]]
    /\ runs' = runs + 1
    /\ UNCHANGED <<table, besidesJob>>

CheckEnvFirst(p) ==
    /\ inv[p].pc = "env" /\ ~IsRepeat(inv[p])
    /\ CheckEnv(p)

CheckEnvAgain(p) ==
    /\ inv[p].pc = "env" /\ IsRepeat(inv[p])
    /\ CheckEnvWith(p, inv[p].prev.env)

FetchReturnsFirst(p) ==
    /\ inv[p].pc = "fetch" /\ ~IsRepeat(inv[p])
    /\ FetchReturns(p)

\* the pair gets the response it got in the run before
FetchReturnsAgain(p) ==
    /\ inv[p].pc = "fetch" /\ IsRepeat(inv[p])
    /\ FetchGives(p, inv[p].prev.responses[Len(inv[p].responses) + 1])

InitRepeated ==
    /\ inv = [p \in Procs |-> Idle]
    /\ table \in {{}, PriorTable}
    /\ runs = 0
    /\ ApiAtRest
    /\ ClientAtRest

NextRepeated ==
    \E p \in Procs :
        \/ InvokeFirst(p)
        \/ InvokeAgain(p)
        \/ CheckEnvFirst(p)
        \/ CheckEnvAgain(p)
        \/ ReadBody(p)
        \/ BuildInputs(p)
        \/ BeginPair(p)
        \/ FetchReturnsFirst(p)
        \/ FetchReturnsAgain(p)
        \/ FetchThrows(p)
        \/ FetchHttpError(p)
        \/ FetchOk(p)
        \/ NextJob(p)
        \/ StorageAccepts(p)
        \/ StorageRejects(p)
        \/ UpsertOk(p)
        \/ UpsertError(p)
        \/ EndPair(p)
        \/ Return(p)

SpecRepeated == InitRepeated /\ [][NextRepeated]_vars

-----------------------------------------------------------------------------
(* One invocation of the handler under fair scheduling.  The runtime        *)
(* resumes the async handler whenever the promise it awaits has settled, so *)
(* a step of the handler that is possible is eventually taken; SerpAPI and  *)
(* storage answer every call made to them, with success or failure.  The    *)
(* invocation starts on an empty table or on one that earlier runs filled;  *)
(* nothing obliges the request to arrive.                                   *)

\* the request arrives
InvokeFair(p) ==
    /\ inv[p].pc = "idle"
    /\ Invoke(p)

\* a step of the handler's own code
HandlerStep(p) ==
    \/ CheckEnv(p)
    \/ ReadBody(p)
    \/ BuildInputs(p)
    \/ BeginPair(p)
    \/ FetchThrows(p)
    \/ FetchHttpError(p)
    \/ FetchOk(p)
    \/ NextJob(p)
    \/ UpsertOk(p)
    \/ UpsertError(p)
    \/ EndPair(p)
    \/ Return(p)

\* SerpAPI or storage answers the call the handler awaits
Answer(p) ==
    \/ FetchReturns(p)
    \/ StorageAccepts(p)
    \/ StorageRejects(p)

InitFair ==
    /\ inv = [p \in Procs |-> Idle]
    /\ table \in {{}, PriorTable}
    /\ runs = 0
    /\ ApiAtRest
    /\ ClientAtRest

NextFair == \E p \in Procs : InvokeFair(p) \/ HandlerStep(p) \/ Answer(p)

SpecFair ==
    /\ InitFair
    /\ [][NextFair]_vars
    /\ \A p \in Procs : WF_vars(HandlerStep(p)) /\ WF_vars(Answer(p))

-----------------------------------------------------------------------------
(* applicationsApi (src/api.ts).  A call awaits requireUserId() and then    *)
(* one query on the applications table; supabase.auth may sign a user in or *)
(* out at any moment, and any query may fail.  Of a row the columns id,     *)
(* user_id, company, status, created_at and updated_at are kept; the other  *)
(* columns are copied in the same way as company.  Timestamps and the ids   *)
(* the database generates count the writes.  The table is queried as the    *)
(* client asks, with the filters of the query and no others.                *)

\* writes to the applications table in one behaviour
MaxWrites == 1

Users == {"A", "B"}

\* the applications the two users have tracked before the behaviour begins
EarlierApplications ==
    { [ id |-> 1, user_id |-> "A", company |-> <<"Acme">>, status |-> "SAVED",
        created_at |-> 1, updated_at |-> 1 ],
      [ id |-> 2, user_id |-> "B", company |-> <<"Acme", SP, "Labs">>,
        status |-> "APPLIED", created_at |-> 2, updated_at |-> 2 ] }

EarlierWrites == Cardinality(EarlierApplications)

AppIds == 1..(EarlierWrites + MaxWrites)

DefaultPage == 0
DefaultPageSize == 50

AuthErrors == {<<"AuthRetryableFetchError">>}
QueryErrors == {<<"TypeError: Failed to fetch">>}

\* params of getAll
GetAllParams ==
    { EmptyBody, [status |-> "APPLIED"], [q |-> <<SP, "Acme", "%">>],
      [page |-> 1, size |-> 1], [from |-> 2], [to |-> 1] }

\* data of create and of update
CreateData ==
    { EmptyBody, [company |-> <<SP, "Acme">>],
      [company |-> <<"Beta">>, status |-> "APPLIED"] }
UpdateData == { [status |-> "APPLIED"], [company |-> <<"Beta", SP>>] }

\* the calls a page may make
ApiCalls ==
         {[op |-> "getAll", id |-> 0, arg |-> a] : a \in GetAllParams}
    \cup {[op |-> "getById", id |-> i, arg |-> EmptyBody] : i \in AppIds}
    \cup {[op |-> "create", id |-> 0, arg |-> d] : d \in CreateData}
    \cup {[op |-> "update", id |-> i, arg |-> d] : i \in AppIds, d \in UpdateData}
    \cup {[op |-> "delete", id |-> i, arg |-> EmptyBody] : i \in AppIds}
    \cup {[op |-> "updateStatus", id |-> i, arg |-> [status |-> "OFFER"]] : i \in AppIds}

mapAppRow(row) ==
    [ id |-> row.id, company |-> row.company, status |-> row.status,
      createdAt |-> row.created_at, updatedAt |-> row.updated_at ]

\* a query without the filter on user_id
OwnedByAnyone(rows, userId) == rows

\* .eq("user_id", userId)
OwnedBy(rows, userId) == {r \in rows : r.user_id = userId}

\* .eq("id", id)
WithId(rows, id) == {r \in rows : r.id = id}

\* column ILIKE %q%, letter case left aside
IsInfix(q, s) == \E k \in 1..(Len(s) - Len(q) + 1) : SubSeq(s, k, k + Len(q) - 1) = q

\* params.q.trim().replace(/%/g, "")
SearchText(q) == SelectSeq(Trim(q), LAMBDA ch : ch # "%")

\* the filters getAll adds for the params that are given
Matching(rows, params) ==
    {r \in rows :
        /\ "status" \in DOMAIN params => r.status = params.status
        /\ ("q" \in DOMAIN params /\ Trim(params.q) # <<>>) =>
               IsInfix(SearchText(params.q), r.company)
        /\ "from" \in DOMAIN params => r.created_at >= params.from
        /\ "to" \in DOMAIN params => r.created_at <= params.to}

\* .order("updated_at", { ascending: false })
RECURSIVE ByUpdatedAtDesc(_)
ByUpdatedAtDesc(rows) ==
    IF rows = {} THEN <<>>
    ELSE LET top == CHOOSE r \in rows : \A o \in rows : o.updated_at <= r.updated_at
         IN  <<top>> \o ByUpdatedAtDesc(rows \ {top})

\* .range(from, to): the rows at the 0-based places from..to
Range(rows, from, to) == SubSeq(rows, from + 1, Min(to + 1, Len(rows)))

CeilDiv(a, b) == (a + b - 1) \div b

\* a page calls one function of applicationsApi
Request ==
    /\ call.pc \in {"idle", "returned", "threw"}
    /\ \E c \in ApiCalls :
         /\ c.op \in {"create", "update", "updateStatus"} =>
                clock < EarlierWrites + MaxWrites
         /\ call' = [NoCall EXCEPT !.pc = "called", !.op = c.op, !.id = c.id,
                                   !.arg = c.arg]
    /\ UNCHANGED <<applications, session, clock, besidesApi>>

\* return applicationsApi.update(id, { status })
updateStatus ==
    /\ call.pc = "called" /\ call.op = "updateStatus"
    /\ call' = [call EXCEPT !.op = "update"]
    /\ UNCHANGED <<applications, session, clock, besidesApi>>

\* const { data, error } = await supabase.auth.getUser(); throw on an error
\* and when there is no user; else the call goes on with the user's id
requireUserId ==
    /\ call.pc = "called" /\ call.op # "updateStatus"
    /\ \/ \E e \in AuthErrors : call' = [call EXCEPT !.pc = "threw", !.error = e]
       \/ /\ session = NoUser
          /\ call' = [call EXCEPT !.pc = "threw", !.error = <<"Not authenticated">>]
       \/ /\ session # NoUser
          /\ call' = [call EXCEPT !.pc = "query", !.userId = session]
    /\ UNCHANGED <<applications, session, clock, besidesApi>>

getAll ==
    /\ call.pc = "query" /\ call.op = "getAll"
    /\ LET page == IF "page" \in DOMAIN call.arg THEN call.arg.page ELSE DefaultPage
           size == IF "size" \in DOMAIN call.arg THEN call.arg.size ELSE DefaultPageSize
           found == Matching(OwnedBy(applications, call.userId), call.arg)
           data == Range(ByUpdatedAtDesc(found), page * size, page * size + size - 1)
           totalElements == Cardinality(found)
       IN  call' = [call EXCEPT !.pc = "returned",
                      !.content = [k \in 1..Len(data) |-> mapAppRow(data[k])],
                      !.totalElements = totalElements,
                      !.totalPages = Max(1, CeilDiv(totalElements, size))]
    /\ UNCHANGED <<applications, session, clock, besidesApi>>

\* .single(): anything but one row is an error
getById ==
    /\ call.pc = "query" /\ call.op = "getById"
    /\ LET found == WithId(OwnedBy(applications, call.userId), call.id)
       IN  IF Cardinality(found) = 1
           THEN call' = [call EXCEPT !.pc = "returned",
                           !.content = <<mapAppRow(CHOOSE r \in found : TRUE)>>]
           ELSE call' = [call EXCEPT !.pc = "threw", !.error = <<"PGRST116">>]
    /\ UNCHANGED <<applications, session, clock, besidesApi>>

create ==
    /\ call.pc = "query" /\ call.op = "create"
    /\ LET data == call.arg
           row == [ id |-> clock + 1,
                    user_id |-> call.userId,
                    company |-> Trim(Coalesce(Get(data, "company"), <<>>)),
                    status |-> IF "status" \in DOMAIN data THEN data.status ELSE "SAVED",
                    created_at |-> clock + 1,
                    updated_at |-> clock + 1 ]
       IN  /\ applications' = applications \cup {row}
           /\ call' = [call EXCEPT !.pc = "returned", !.content = <<mapAppRow(row)>>]
    /\ clock' = clock + 1
    /\ UNCHANGED <<session, besidesApi>>

\* the row after .update(payload)
Updated(r, data, now) ==
    [r EXCEPT !.updated_at = now,
              !.company = IF "company" \in DOMAIN data THEN data.company ELSE @,
              !.status = IF "status" \in DOMAIN data THEN data.status ELSE @]

update ==
    /\ call.pc = "query" /\ call.op = "update"
    /\ LET found == WithId(OwnedBy(applications, call.userId), call.id)
           after == {Updated(r, call.arg, clock + 1) : r \in found}
       IN  /\ applications' = (applications \ found) \cup after
           /\ IF Cardinality(after) = 1
              THEN call' = [call EXCEPT !.pc = "returned",
                              !.content = <<mapAppRow(CHOOSE r \in after : TRUE)>>]
              ELSE call' = [call EXCEPT !.pc = "threw", !.error = <<"PGRST116">>]
    /\ clock' = clock + 1
    /\ UNCHANGED <<session, besidesApi>>

delete ==
    /\ call.pc = "query" /\ call.op = "delete"
    /\ applications' =
           applications \ WithId(OwnedBy(applications, call.userId), call.id)
    /\ call' = [call EXCEPT !.pc = "returned"]
    /\ UNCHANGED <<session, clock, besidesApi>>

\* the query comes back with an error, nothing done: if (error) throw error
QueryFails ==
    /\ call.pc = "query"
    /\ \E e \in QueryErrors : call' = [call EXCEPT !.pc = "threw", !.error = e]
    /\ UNCHANGED <<applications, session, clock, besidesApi>>

\* supabase.auth gets a session for u
SignIn ==
    /\ \E u \in Users : u # session /\ session' = u
    /\ UNCHANGED <<applications, call, clock, besidesApi>>

SignOut ==
    /\ session # NoUser
    /\ session' = NoUser
    /\ UNCHANGED <<applications, call, clock, besidesApi>>

InitApi ==
    /\ JobAtRest
    /\ applications = EarlierApplications
    /\ session = NoUser
    /\ call = NoCall
    /\ clock = EarlierWrites
    /\ ClientAtRest

NextApi ==
    \/ Request
    \/ updateStatus
    \/ requireUserId
    \/ getAll
    \/ getById
    \/ create
    \/ update
    \/ delete
    \/ QueryFails
    \/ SignIn
    \/ SignOut

SpecApi == InitApi /\ [][NextApi]_vars

-----------------------------------------------------------------------------
(* contactsApi and remindersApi (src/api.ts) next to applicationsApi.delete. *)
(* A contact or a reminder is inserted with the application id the caller    *)
(* passes; the tables are written as the client asks, with the filters and   *)
(* the payload of the query and nothing else: the repository holds no schema *)
(* and declares no foreign key and no cascade.                               *)

\* contacts and reminders created in one behaviour
MaxChildren == 2

\* the contact and the reminder a page may pass
ContactData == { EmptyBody, [name |-> <<"Ann">>] }
ReminderData == { [remindAt |-> 5, message |-> <<"follow up">>] }

\* the calls of the application detail page and of the list page
ChildCalls ==
         {[op |-> "delete", id |-> i, arg |-> EmptyBody] : i \in AppIds}
    \cup {[op |-> "contacts.create", id |-> i, arg |-> d] : i \in AppIds, d \in ContactData}
    \cup {[op |-> "reminders.create", id |-> i, arg |-> d] : i \in AppIds, d \in ReminderData}

\* a page calls applicationsApi.delete, contactsApi.create or remindersApi.create
RequestChild ==
    /\ call.pc \in {"idle", "returned", "threw"}
    /\ \E c \in ChildCalls :
         /\ c.op # "delete" =>
                Cardinality(contacts) + Cardinality(reminders) < MaxChildren
         /\ call' = [NoCall EXCEPT !.pc = "called", !.op = c.op, !.id = c.id,
                                   !.arg = c.arg]
    /\ UNCHANGED <<applications, session, clock, childVars, besidesChildren>>

\* supabase.from("application_contacts").insert({ user_id, application_id, ... })
contactsCreate ==
    /\ call.pc = "query" /\ call.op = "contacts.create"
    /\ LET row == [ id |-> Cardinality(contacts) + 1,
                    user_id |-> call.userId,
                    application_id |-> call.id,
                    name |-> Coalesce(Get(call.arg, "name"), Null) ]
       IN  /\ contacts' = contacts \cup {row}
           /\ call' = [call EXCEPT !.pc = "returned", !.content = <<row>>]
    /\ UNCHANGED <<applications, session, clock, reminders, besidesChildren>>

\* supabase.from("reminders").insert({ user_id, application_id, ..., completed: false })
remindersCreate ==
    /\ call.pc = "query" /\ call.op = "reminders.create"
    /\ LET row == [ id |-> Cardinality(reminders) + 1,
                    user_id |-> call.userId,
                    application_id |-> call.id,
                    remind_at |-> call.arg.remindAt,
                    message |-> call.arg.message,
                    completed |-> FALSE ]
       IN  /\ reminders' = reminders \cup {row}
           /\ call' = [call EXCEPT !.pc = "returned", !.content = <<row>>]
    /\ UNCHANGED <<applications, session, clock, contacts, besidesChildren>>

InitChildren ==
    /\ JobAtRest
    /\ applications = EarlierApplications
    /\ session = NoUser
    /\ call = NoCall
    /\ clock = EarlierWrites
    /\ ChildrenAtRest
    /\ BoardAtRest
    /\ AuthAtRest
    /\ ListAtRest

NextChildren ==
    \/ RequestChild
    \/ requireUserId
    \/ delete
    \/ contactsCreate
    \/ remindersCreate
    \/ QueryFails
    \/ SignIn
    \/ SignOut

SpecChildren == InitChildren /\ [][NextChildren]_vars

-----------------------------------------------------------------------------

(* The Kanban board (pages/Board.tsx).  The board reads the ["apps"] query   *)
(* (applicationsApi.getAll) and, on a drop, writes the new status into the   *)
(* query data and sends applicationsApi.updateStatus through a mutation      *)
(* whose only callback is onSuccess.  The server executes the reads and the  *)
(* updates one at a time, at moments of its own; every answer reaches the    *)
(* page later.  drops counts the drops handled.                              *)

\* drops in one behaviour
MaxDrops == 2

\* const STATUSES = [{ id: "SAVED", ... }, ...]: the ids
STATUSES == <<"SAVED", "APPLIED", "OA", "INTERVIEW", "OFFER", "REJECTED">>

StatusIds == {STATUSES[k] : k \in 1..Len(STATUSES)}

\* the user's applications when the board mounts
BoardRows ==
    { [ id |-> "a1", company |-> <<"Acme">>, status |-> "SAVED",
        created_at |-> 1, updated_at |-> 1 ],
      [ id |-> "a2", company |-> <<"Beta">>, status |-> "INTERVIEW",
        created_at |-> 2, updated_at |-> 2 ] }

BoardWrites == Cardinality(BoardRows)

\* a mixed-up board on which the cards are drop targets too
DroppablesWithCards == StatusIds \cup {r.id : r \in BoardRows}

\* useDroppable({ id: status.id }) of the six columns: what event.over.id can be
Droppables == StatusIds

\* event.over is null: the card is released outside every column
NoOver == "none"

\* the board is past isLoading and shows no error: the DndContext is rendered
Rendered == cached # NoData /\ appsQuery.pc # "error"

CardIds == {cached[k].id : k \in 1..Len(cached)}

\* the query data's entry for the card
Card(id) == cached[CHOOSE k \in 1..Len(cached) : cached[k].id = id]

\* res.data.content of applicationsApi.getAll({ page: 0, size: 2000 })
Content(rows) ==
    LET data == Range(ByUpdatedAtDesc(rows), 0, 1999)
    IN  [k \in 1..Len(data) |-> mapAppRow(data[k])]

\* arr.map((a) => a.id === applicationId ? { ...a, status: newStatus } : a)
WithStatus(arr, applicationId, newStatus) ==
    [k \in 1..Len(arr) |->
        IF arr[k].id = applicationId THEN [arr[k] EXCEPT !.status = newStatus]
        ELSE arr[k]]

\* setActiveId(String(event.active.id))
handleDragStart ==
    /\ Rendered
    /\ activeId = NoCard
    /\ drops < MaxDrops
    /\ \E id \in CardIds : activeId' = id
    /\ UNCHANGED <<cached, stored, appsQuery, mutations, drops, besidesBoard>>

\* the drop: if (over && active.id !== over.id) the optimistic update and
\* updateStatusMutation.mutate; setActiveId(null)
handleDragEnd ==
    /\ activeId # NoCard
    /\ \E over \in Droppables \cup {NoOver} :
         IF over # NoOver /\ activeId # over
         THEN /\ cached' = WithStatus(cached, activeId, over)
              /\ mutations' = mutations \cup
                     {[n |-> drops + 1, id |-> activeId, status |-> over,
                       pc |-> "sent"]}
         ELSE UNCHANGED <<cached, mutations>>
    /\ drops' = drops + 1
    /\ activeId' = NoCard
    /\ UNCHANGED <<stored, appsQuery, besidesBoard>>

\* setActiveId(null)
handleDragCancel ==
    /\ activeId # NoCard
    /\ activeId' = NoCard
    /\ UNCHANGED <<cached, stored, appsQuery, mutations, drops, besidesBoard>>

\* the server executes the update of a mutation: status and updated_at of the
\* user's row with the id
updateStatusApplied ==
    /\ \E m \in mutations :
         /\ m.pc = "sent"
         /\ \E r \in stored : r.id = m.id
         /\ stored' = {IF r.id = m.id
                       THEN [r EXCEPT !.status = m.status,
                                      !.updated_at = BoardWrites + m.n]
                       ELSE r : r \in stored}
         /\ mutations' = (mutations \ {m}) \cup {[m EXCEPT !.pc = "ok"]}
    /\ UNCHANGED <<cached, appsQuery, activeId, drops, besidesBoard>>

\* applicationsApi.updateStatus throws (no user, or the query's error)
updateStatusFails ==
    /\ \E m \in mutations :
         /\ m.pc = "sent"
         /\ mutations' = (mutations \ {m}) \cup {[m EXCEPT !.pc = "failed"]}
    /\ UNCHANGED <<cached, stored, appsQuery, activeId, drops, besidesBoard>>

\* the mutation ends in error: useMutation is given no onError and no
\* onSettled, so nothing is done
mutationRejected ==
    /\ \E m \in mutations :
         /\ m.pc = "failed"
         /\ mutations' = mutations \ {m}
    /\ UNCHANGED <<cached, stored, appsQuery, activeId, drops, besidesBoard>>

\* onSuccess: queryClient.invalidateQueries({ queryKey: ["apps"] }), which
\* starts the fetch anew
onSuccess ==
    /\ \E m \in mutations :
         /\ m.pc = "ok"
         /\ mutations' = mutations \ {m}
    /\ appsQuery' = [pc |-> "fetching", data |-> NoData]
    /\ UNCHANGED <<cached, stored, activeId, drops, besidesBoard>>

\* the server executes the getAll of the fetch
queryFnAnswers ==
    /\ appsQuery.pc = "fetching"
    /\ appsQuery' = [pc |-> "answered", data |-> Content(stored)]
    /\ UNCHANGED <<cached, stored, mutations, activeId, drops, besidesBoard>>

\* applicationsApi.getAll throws: the query is in error, its data kept
queryFnFails ==
    /\ appsQuery.pc = "fetching"
    /\ appsQuery' = [pc |-> "error", data |-> NoData]
    /\ UNCHANGED <<cached, stored, mutations, activeId, drops, besidesBoard>>

\* the answer of the fetch becomes the query data
querySettles ==
    /\ appsQuery.pc = "answered"
    /\ cached' = appsQuery.data
    /\ appsQuery' = [pc |-> "idle", data |-> NoData]
    /\ UNCHANGED <<stored, mutations, activeId, drops, besidesBoard>>

\* the query in error is fetched again (the window is focused again, the
\* page is opened again)
Refetch ==
    /\ appsQuery.pc = "error"
    /\ appsQuery' = [pc |-> "fetching", data |-> NoData]
    /\ UNCHANGED <<cached, stored, mutations, activeId, drops, besidesBoard>>

\* the board mounts: the query starts its first fetch
InitBoard ==
    /\ JobAtRest
    /\ ApiAtRest
    /\ ChildrenAtRest
    /\ AuthAtRest
    /\ ListAtRest
    /\ cached = NoData
    /\ stored = BoardRows
    /\ appsQuery = [pc |-> "fetching", data |-> NoData]
    /\ mutations = {}
    /\ activeId = NoCard
    /\ drops = 0

\* what the user does, what the server does, what the page does on an answer
UserStep == handleDragStart \/ handleDragEnd \/ handleDragCancel \/ Refetch
ServerStep ==
    updateStatusApplied \/ updateStatusFails \/ queryFnAnswers \/ queryFnFails
PageStep == onSuccess \/ mutationRejected \/ querySettles

NextBoard == UserStep \/ ServerStep \/ PageStep

SpecBoard == InitBoard /\ [][NextBoard]_vars

\* every call is answered and every answer is handled; the user is obliged
\* to nothing
SpecBoardFair ==
    /\ InitBoard
    /\ [][NextBoard]_vars
    /\ WF_vars(ServerStep)
    /\ WF_vars(PageStep)

-----------------------------------------------------------------------------

(* The AuthProvider (providers/authprovider.tsx).  Its effect calls          *)
(* supabase.auth.getSession() and subscribes to onAuthStateChange; both      *)
(* callbacks set session, user and loading.  supabase.auth holds the current *)
(* session; the getSession() promise resolves with the session held at that *)
(* moment and its then-callback runs later, and an auth-state-change event   *)
(* may be delivered in between.  lastEvent is a history variable: the number *)
(* of events delivered and the session of the last one; getSessionCall.after *)
(* is the number of events delivered when the then-callback ran.             *)

\* auth-state-change events in one behaviour
MaxEvents == 2

\* sessions supabase.auth may hold: two of user A (the second a refreshed
\* token) and one of user B
Sessions == {"s1", "s2", "s3"}

\* session.user
UserOf(s) ==
    CASE s = "s1" -> "A"
      [] s = "s2" -> "A"
      [] s = "s3" -> "B"

\* if (!mounted) return
StillMounted(p) == p.mounted

\* setSession(s ?? null); setUser(s?.user ?? null); setLoading(false)
SetSession(p, s) ==
    [p EXCEPT !.session = s,
              !.user = IF s = NoSession THEN NoUser ELSE UserOf(s),
              !.loading = FALSE]

\* supabase.auth.getSession() resolves with the session held now
getSessionResolves ==
    /\ getSessionCall.pc = "pending"
    /\ getSessionCall' = [getSessionCall EXCEPT !.pc = "resolved",
                                                !.session = authState]
    /\ UNCHANGED <<provider, authState, lastEvent, besidesAuth>>

\* .then(({ data }) => { if (!mounted) return; setSession(...); ... })
getSessionThen ==
    /\ getSessionCall.pc = "resolved"
    /\ getSessionCall' = [getSessionCall EXCEPT !.pc = "delivered",
                                                !.after = lastEvent.n]
    /\ provider' = IF StillMounted(provider)
                   THEN SetSession(provider, getSessionCall.session)
                   ELSE provider
    /\ UNCHANGED <<authState, lastEvent, besidesAuth>>

\* supabase.auth comes to hold nextSession (sign-in, sign-out, refreshed
\* token, or the same session announced again) and calls the subscriber:
\* onAuthStateChange((_event, nextSession) => { setSession(...); ... })
onAuthStateChange ==
    /\ provider.mounted
    /\ lastEvent.n < MaxEvents
    /\ \E nextSession \in Sessions \cup {NoSession} :
         /\ authState' = nextSession
         /\ provider' = SetSession(provider, nextSession)
         /\ lastEvent' = [n |-> lastEvent.n + 1, session |-> nextSession]
    /\ UNCHANGED <<getSessionCall, besidesAuth>>

\* the cleanup of the effect: mounted = false; sub.subscription.unsubscribe()
Unmount ==
    /\ provider.mounted
    /\ provider' = [provider EXCEPT !.mounted = FALSE]
    /\ UNCHANGED <<authState, getSessionCall, lastEvent, besidesAuth>>

\* supabase.auth changes its session with no subscriber left
AuthChangesUnheard ==
    /\ ~provider.mounted
    /\ \E nextSession \in Sessions \cup {NoSession} :
         /\ nextSession # authState
         /\ authState' = nextSession
    /\ UNCHANGED <<provider, getSessionCall, lastEvent, besidesAuth>>

\* the provider has mounted and its effect has run: getSession() is pending
\* and the subscription stands; supabase.auth holds a session or none
InitAuth ==
    /\ JobAtRest
    /\ ApiAtRest
    /\ ChildrenAtRest
    /\ BoardAtRest
    /\ ListAtRest
    /\ provider = [user |-> NoUser, session |-> NoSession, loading |-> TRUE,
                   mounted |-> TRUE]
    /\ authState \in Sessions \cup {NoSession}
    /\ getSessionCall = [pc |-> "pending", session |-> NoSession, after |-> 0]
    /\ lastEvent = [n |-> 0, session |-> NoSession]

NextAuth ==
    \/ getSessionResolves
    \/ getSessionThen
    \/ onAuthStateChange
    \/ Unmount
    \/ AuthChangesUnheard

SpecAuth == InitAuth /\ [][NextAuth]_vars

-----------------------------------------------------------------------------

(* The Applications page (pages/Applications.tsx): the list under ["apps"],  *)
(* the three filters, the page shown, the deletion of a row and the effect   *)
(* that snaps the page back.  listed holds the ids of the rows of the query  *)
(* data, in the order of the ids; the fields of a row are those of the       *)
(* fixture ListedApp.  effectPending says that a render has committed and    *)
(* the effect has yet to run: React runs it before it handles the next       *)
(* event.  snapped is a history variable.                                    *)

\* rows deleted in one behaviour
MaxDeletes == 2

ITEMS_PER_PAGE == 12

\* rows of the user: three pages of them
ListedApps == 26

\* no row
NoId == 0

ListedApp(id) ==
    [id |-> id,
     company |-> IF id <= 20 THEN <<"Acme">> ELSE <<"Globex">>,
     role |-> <<"Engineer">>,
     location |-> IF id % 2 = 1 THEN <<"Remote">> ELSE Null,
     status |-> CASE id % 3 = 0 -> "APPLIED"
                  [] id % 3 = 1 -> "SAVED"
                  [] OTHER -> "INTERVIEW",
     priority |-> IF id % 2 = 0 THEN "HIGH" ELSE "LOW",
     archived |-> id = 5]

\* what the user types into the search box and picks in the two selects
SearchTexts == {<<>>, <<SP>>, <<"Acme">>, <<"zzz">>}
StatusChoices == {"ALL", "SAVED", "OFFER"}
PriorityChoices == {"ALL", "HIGH"}

\* String.prototype.toLowerCase
toLowerCase(s) ==
    [k \in DOMAIN s |->
        CASE s[k] = "Acme" -> "acme"
          [] s[k] = "Globex" -> "globex"
          [] s[k] = "Engineer" -> "engineer"
          [] s[k] = "Remote" -> "remote"
          [] OTHER -> s[k]]

\* field?.toLowerCase().includes(q)
includes(field, q) ==
    /\ field # Null
    /\ \E i \in 0..(Len(field) - Len(q)) :
         SubSeq(toLowerCase(field), i + 1, i + Len(q)) = q

\* the query data
applicationsOf(ids) ==
    SelectSeq([i \in 1..ListedApps |-> ListedApp(i)],
              LAMBDA app : app.id \in ids)

filteredOf(ids, f) ==
    LET q == toLowerCase(f.searchQuery)
        shown(app) == f.showArchivedApps \/ ~app.archived
        found(app) == Trim(f.searchQuery) # <<>> =>
                        \/ includes(app.company, q)
                        \/ includes(app.role, q)
                        \/ includes(app.location, q)
        ofStatus(app) == f.statusFilter # "ALL" => app.status = f.statusFilter
        ofPriority(app) ==
            f.priorityFilter # "ALL" => app.priority = f.priorityFilter
    IN  SelectSeq(applicationsOf(ids),
                  LAMBDA app : /\ shown(app)
                               /\ found(app)
                               /\ ofStatus(app)
                               /\ ofPriority(app))

filteredApplications == filteredOf(listed, filters)

\* Math.max(1, Math.ceil(filteredApplications.length / ITEMS_PER_PAGE))
totalPagesOf(filtered) == Max(1, CeilDiv(Len(filtered), ITEMS_PER_PAGE))

totalPages == totalPagesOf(filteredApplications)

\* Array.prototype.slice(start, end) of non-negative indices
slice(arr, start, end) == SubSeq(arr, start + 1, Min(end, Len(arr)))

paginatedOf(filtered, page) ==
    slice(filtered, (page - 1) * ITEMS_PER_PAGE, page * ITEMS_PER_PAGE)

paginatedApplications == paginatedOf(filteredApplications, currentPage)

\* the page handles an event only after the pending effect has run
Interactive == ~effectPending

\* onChange of the search box: setSearchQuery(value); setCurrentPage(1)
setSearchQuery ==
    /\ Interactive
    /\ \E value \in SearchTexts \ {filters.searchQuery} :
         filters' = [filters EXCEPT !.searchQuery = value]
    /\ currentPage' = 1
    /\ effectPending' = TRUE
    /\ UNCHANGED <<listed, deletions, snapped, besidesList>>

\* onChange of the status select
setStatusFilter ==
    /\ Interactive
    /\ \E value \in StatusChoices \ {filters.statusFilter} :
         filters' = [filters EXCEPT !.statusFilter = value]
    /\ currentPage' = 1
    /\ effectPending' = TRUE
    /\ UNCHANGED <<listed, deletions, snapped, besidesList>>

\* onChange of the priority select
setPriorityFilter ==
    /\ Interactive
    /\ \E value \in PriorityChoices \ {filters.priorityFilter} :
         filters' = [filters EXCEPT !.priorityFilter = value]
    /\ currentPage' = 1
    /\ effectPending' = TRUE
    /\ UNCHANGED <<listed, deletions, snapped, besidesList>>

\* the "Clear filters" button of the empty grid
clearFilters ==
    /\ Interactive
    /\ paginatedApplications = <<>>
    /\ \/ filters.searchQuery # <<>>
       \/ filters.statusFilter # "ALL"
       \/ filters.priorityFilter # "ALL"
    /\ filters' = [filters EXCEPT !.searchQuery = <<>>,
                                  !.statusFilter = "ALL",
                                  !.priorityFilter = "ALL"]
    /\ currentPage' = 1
    /\ effectPending' = TRUE
    /\ UNCHANGED <<listed, deletions, snapped, besidesList>>

\* the pages the pagination controls offer: previous, 1..totalPages, next
PageButtons ==
    IF paginatedApplications # <<>> /\ totalPages > 1
    THEN (1..totalPages)
         \cup (IF currentPage = 1 THEN {} ELSE {currentPage - 1})
         \cup (IF currentPage = totalPages THEN {} ELSE {currentPage + 1})
    ELSE {}

\* handlePageChange(page)
handlePageChange ==
    /\ Interactive
    /\ \E page \in PageButtons :
         currentPage' = Min(Max(1, page), totalPages)
    /\ effectPending' = TRUE
    /\ UNCHANGED <<listed, filters, deletions, snapped, besidesList>>

\* the row whose delete button the user presses: the last of the page shown,
\* the one whose deletion can empty the page
DeleteButtons ==
    IF paginatedApplications = <<>> THEN {}
    ELSE {paginatedApplications[Len(paginatedApplications)].id}

\* handleDelete(id) and confirmDelete(): deleteMutation.mutate(id)
confirmDelete ==
    /\ Interactive
    /\ deletions.pending = NoId
    /\ deletions.n < MaxDeletes
    /\ \E id \in DeleteButtons :
         deletions' = [n |-> deletions.n + 1, pending |-> id]
    /\ UNCHANGED <<listed, filters, currentPage, effectPending, snapped,
                   besidesList>>

\* applicationsApi.delete(id) succeeded, onSuccess invalidated ["apps"] and
\* the refetched list is rendered
deleteRefetched ==
    /\ Interactive
    /\ deletions.pending # NoId
    /\ listed' = listed \ {deletions.pending}
    /\ deletions' = [deletions EXCEPT !.pending = NoId]
    /\ effectPending' = TRUE
    /\ UNCHANGED <<filters, currentPage, snapped, besidesList>>

\* applicationsApi.delete(id) threw: the list stays
deleteFails ==
    /\ Interactive
    /\ deletions.pending # NoId
    /\ deletions' = [deletions EXCEPT !.pending = NoId]
    /\ UNCHANGED <<listed, filters, currentPage, effectPending, snapped,
                   besidesList>>

\* an effect that leaves the page as it is
snapBackSkipped ==
    /\ effectPending
    /\ effectPending' = FALSE
    /\ UNCHANGED <<listed, filters, currentPage, deletions, snapped,
                   besidesList>>

\* useEffect(() => { if (currentPage > totalPages)
\*                     setCurrentPage(totalPages); },
\*           [currentPage, totalPages])
snapBack ==
    /\ effectPending
    /\ IF currentPage > totalPages
       THEN /\ currentPage' = totalPages
            /\ snapped' = TRUE
            /\ UNCHANGED effectPending
       ELSE /\ effectPending' = FALSE
            /\ UNCHANGED <<currentPage, snapped>>
    /\ UNCHANGED <<listed, filters, deletions, besidesList>>

\* the page has mounted, the first fetch has answered and the first render
\* has committed
InitList ==
    /\ JobAtRest
    /\ ApiAtRest
    /\ ChildrenAtRest
    /\ BoardAtRest
    /\ AuthAtRest
    /\ listed = 1..ListedApps
    /\ \E show \in BOOLEAN :
         filters = [searchQuery |-> <<>>, statusFilter |-> "ALL",
                    priorityFilter |-> "ALL", showArchivedApps |-> show]
    /\ currentPage = 1
    /\ effectPending = TRUE
    /\ deletions = [n |-> 0, pending |-> NoId]
    /\ snapped = FALSE

NextList ==
    \/ setSearchQuery
    \/ setStatusFilter
    \/ setPriorityFilter
    \/ clearFilters
    \/ handlePageChange
    \/ confirmDelete
    \/ deleteRefetched
    \/ deleteFails
    \/ snapBack

SpecList == InitList /\ [][NextList]_vars

-----------------------------------------------------------------------------

(* Vocabulary of the properties *)

Running == {p \in DOMAIN inv : inv[p].pc # "idle"}

\* the invocation has built its summary
HasSummary(i) == i.summary.ok

NumPairs(i) == Len(i.jobTitles) * Len(i.locations)

\* the k-th pair of the title x location loops
PairAt(i, k) ==
    << i.jobTitles[((k - 1) \div Len(i.locations)) + 1],
       i.locations[((k - 1) % Len(i.locations)) + 1] >>

AllPairs(i) == [k \in 1..NumPairs(i) |-> PairAt(i, k)]

\* a per-pair record of a failed search
FailedRec(rec) == "error" \in DOMAIN rec \/ "serpapi_http" \in DOMAIN rec

\* SerpAPI's answer is a failure: fetch threw, or the status is not 2xx
SearchFailed(i) == i.pc = "fetched" /\ i.res.kind \in {"throws", "http"}

FailureReason(res) ==
    IF res.kind = "throws" THEN res.message ELSE HttpReason(res.status)

Last(s) == s[Len(s)]

\* every pair was requested, in loop order, and every row within the cap of
\* every pair whose search succeeded was skipped for want of a URL or attempted
WholeBatchProcessed(i) ==
    /\ i.requested = AllPairs(i)
    /\ Len(i.summary.per_query_counts) = NumPairs(i)
    /\ \A k \in 1..NumPairs(i) :
         LET rec == i.summary.per_query_counts[k] IN
           /\ <<rec.query, rec.location>> = PairAt(i, k)
           /\ ~FailedRec(rec) =>
                rec.attempted + rec.skipped_no_url = Min(rec.fetched, i.maxResults)

\* the posting being processed while an upsert is pending or answered
InUpsert(i) == i.pc \in {"upsert", "upserted"}
CurrentJob(i) == i.slice[i.ji]

-----------------------------------------------------------------------------
(* C1: when the search of a pair fails, the failure is recorded once in     *)
(* serpapi_errors for that pair, nothing of the pair is attempted or        *)
(* written, the loop goes on with the following pair, and a run that ends   *)
(* has requested every pair and processed the rows of every pair whose      *)
(* search succeeded.                                                        *)

C1_FailureStep(p) ==
    (SearchFailed(inv[p]) /\ inv'[p] # inv[p]) =>
        LET i == inv[p]
            j == inv'[p]
            n == Len(i.requested)
        IN  /\ j.summary.serpapi_errors =
                 Append(i.summary.serpapi_errors,
                        [query |-> Query(p), location |-> Location(p),
                         reason |-> FailureReason(i.res)])
            /\ Len(j.summary.per_query_counts) = Len(i.summary.per_query_counts) + 1
            /\ LET rec == Last(j.summary.per_query_counts) IN
                 /\ <<rec.query, rec.location>> = <<Query(p), Location(p)>>
                 /\ rec.fetched = 0 /\ rec.attempted = 0 /\ rec.upserted = 0
            /\ table' = table
            /\ j.upsertCalls = i.upsertCalls
            /\ j.summary.upsert_success = i.summary.upsert_success
            /\ j.pc = "loop"
            /\ j.requested = i.requested
            /\ n < NumPairs(i) =>
                 /\ MorePairs(j)
                 /\ <<j.jobTitles[j.qi], j.locations[j.li]>> = PairAt(i, n + 1)

C1_AtReturn(p) ==
    (inv[p].pc = "done" /\ HasSummary(inv[p])) => WholeBatchProcessed(inv[p])

C1_FailedSearchIsolated ==
    [][\A p \in DOMAIN inv : C1_FailureStep(p) /\ C1_AtReturn(p)']_vars

\* a returned run in which a pair failed and a later pair had a row upserted
C1_Witness ==
    \E p \in DOMAIN inv :
        /\ inv[p].pc = "done" /\ HasSummary(inv[p])
        /\ LET pqc == inv[p].summary.per_query_counts IN
             \E k \in 1..Len(pqc), m \in 1..Len(pqc) :
                 k < m /\ FailedRec(pqc[k]) /\ pqc[m].upserted > 0
        /\ table # {}

-----------------------------------------------------------------------------
(* C2: when storage rejects the upsert of a row, the failure is recorded    *)
(* once in upsert_errors with the row's query, location, role, company and  *)
(* the reason, the row is not counted as upserted, the next row of the      *)
(* slice is processed next, and a run that ends has processed every row of  *)
(* every pair.                                                              *)

UpsertRejected(i) == i.pc = "upserted" /\ i.error # Null

C2_RejectionStep(p) ==
    (UpsertRejected(inv[p]) /\ inv'[p] # inv[p]) =>
        LET i == inv[p]
            j == inv'[p]
        IN  /\ j.summary.upsert_errors =
                 Append(i.summary.upsert_errors,
                        [query |-> Query(p), location |-> Location(p),
                         role |-> i.row.role, company |-> i.row.company,
                         reason |-> i.error])
            /\ j.summary.upsert_success = i.summary.upsert_success
            /\ j.per.upserted = i.per.upserted
            /\ j.summary.serpapi_errors = i.summary.serpapi_errors
            /\ table' = table
            /\ j.pc = "jobs"
            /\ j.slice = i.slice /\ j.ji = i.ji + 1
            /\ <<j.qi, j.li>> = <<i.qi, i.li>>

C2_AtReturn(p) ==
    (inv[p].pc = "done" /\ HasSummary(inv[p])) =>
        /\ WholeBatchProcessed(inv[p])
        /\ \A k \in 1..Len(inv[p].summary.per_query_counts) :
             inv[p].summary.per_query_counts[k].upserted
                 <= inv[p].summary.per_query_counts[k].attempted
        /\ inv[p].summary.upsert_success + Len(inv[p].summary.upsert_errors)
               = inv[p].upsertCalls

C2_RejectedUpsertIsolated ==
    [][\A p \in DOMAIN inv : C2_RejectionStep(p) /\ C2_AtReturn(p)']_vars

\* the first row of a pair was rejected and the second row's upsert is issued
C2_Witness ==
    \E p \in DOMAIN inv :
        /\ inv[p].pc = "upsert" /\ inv[p].ji = 2
        /\ inv[p].per.attempted = 2 /\ inv[p].per.upserted = 0
        /\ Len(inv[p].summary.upsert_errors) = 1

-----------------------------------------------------------------------------
(* C3: the open_jobs table never holds two rows with the same               *)
(* (source, source_job_id).                                                 *)

C3_UniqueKey ==
    \A r1 \in table, r2 \in table : KeyOf(r1) = KeyOf(r2) => r1 = r2

\* a second run has upserted a key the table already held
C3_Witness ==
    /\ runs = 2
    /\ \E p \in DOMAIN inv :
         /\ inv[p].pc = "upserted" /\ inv[p].error = Null
         /\ inv[p].replaced # {}
         /\ inv[p].summary.upsert_success = 0

-----------------------------------------------------------------------------
(* C4: once storage has taken an upsert, the table holds exactly one row    *)
(* under the row's (source, source_job_id), and its company, role,          *)
(* location, job_url and date_posted are those of this upsert, whatever     *)
(* the row held before.                                                     *)

C4_LatestValues ==
    \A p \in DOMAIN inv :
        (inv[p].pc = "upserted" /\ inv[p].error = Null) =>
            LET row == inv[p].row
                held == {r \in table : KeyOf(r) = KeyOf(row)}
            IN  /\ Cardinality(held) = 1
                /\ \A r \in held :
                     /\ r.company = row.company /\ r.role = row.role
                     /\ r.location = row.location /\ r.job_url = row.job_url
                     /\ r.date_posted = row.date_posted
                /\ \A old \in inv[p].replaced : \E r \in held : r.id = old.id

\* the upsert found its key with five other field values
C4_Witness ==
    \E p \in DOMAIN inv :
        /\ inv[p].pc = "upserted" /\ inv[p].error = Null
        /\ \E old \in inv[p].replaced :
             /\ old.company # inv[p].row.company /\ old.role # inv[p].row.role
             /\ old.location # inv[p].row.location
             /\ old.job_url # inv[p].row.job_url
             /\ old.date_posted # inv[p].row.date_posted

-----------------------------------------------------------------------------
(* C5: a posting of the slice that has none of the URL candidate fields is  *)
(* skipped: no upsert is issued for it, the table is untouched, and the     *)
(* pair's skipped_no_url and the summary's skipped_no_url both grow by one. *)

NoUrlField(job) ==
    \A k \in 1..Len(UrlCandidates) : UrlCandidates[k] \notin DOMAIN job

AtPosting(i) == i.pc = "jobs" /\ i.ji <= Len(i.slice)

C5_SkipStep(p) ==
    (AtPosting(inv[p]) /\ NoUrlField(CurrentJob(inv[p])) /\ inv'[p] # inv[p]) =>
        LET i == inv[p]
            j == inv'[p]
        IN  /\ j.per.skipped_no_url = i.per.skipped_no_url + 1
            /\ j.summary.skipped_no_url = i.summary.skipped_no_url + 1
            /\ j.per.attempted = i.per.attempted
            /\ j.upsertCalls = i.upsertCalls
            /\ j.pc = "jobs" /\ j.ji = i.ji + 1
            /\ table' = table

C5_NoUrlSkipped == [][\A p \in DOMAIN inv : C5_SkipStep(p)]_vars

\* a posting without URL fields has just been skipped
C5_Witness ==
    \E p \in DOMAIN inv :
        /\ inv[p].pc = "jobs" /\ inv[p].ji > 1
        /\ NoUrlField(inv[p].slice[inv[p].ji - 1])
        /\ inv[p].per.skipped_no_url >= 1
        /\ inv[p].summary.skipped_no_url >= 1

-----------------------------------------------------------------------------
(* C6: the source_job_id of every row handed to storage is the posting's    *)
(* native job_id when that is not blank, and otherwise the resolved posting *)
(* URL, which is the row's job_url.                                         *)

\* a string with a character that is not whitespace
NonBlank(s) == s # Null /\ \E k \in 1..Len(s) : s[k] # SP

C6_SourceJobId ==
    \A p \in DOMAIN inv :
        InUpsert(inv[p]) =>
            LET job == CurrentJob(inv[p])
                row == inv[p].row
            IN  /\ row.job_url # Null /\ row.job_url # <<>>
                /\ IF NonBlank(Get(job, "job_id"))
                   THEN row.source_job_id = job.job_id
                   ELSE row.source_job_id = row.job_url
                /\ (inv[p].pc = "upserted" /\ inv[p].error = Null) =>
                     \E r \in table : r.source_job_id = row.source_job_id

\* a posting with a blank native id was written under its URL
C6_Witness ==
    \E p \in DOMAIN inv :
        /\ inv[p].pc = "upserted" /\ inv[p].error = Null
        /\ "job_id" \in DOMAIN CurrentJob(inv[p])
        /\ ~NonBlank(CurrentJob(inv[p]).job_id)
        /\ \E r \in table : r.source_job_id = inv[p].row.job_url

-----------------------------------------------------------------------------
(* C7: the date_posted of every row handed to storage is null when the      *)
(* posting has no posted-date string or the string does not parse, and      *)
(* otherwise the normalized timestamp of the instant the string parses to;  *)
(* the posting is processed either way.  The posted-date string is the      *)
(* first of posted_at_date, posted_at, posted that the posting has.         *)

PostedDateString(job) ==
    IF "posted_at_date" \in DOMAIN job THEN job.posted_at_date
    ELSE IF "posted_at" \in DOMAIN job THEN job.posted_at
    ELSE IF "posted" \in DOMAIN job THEN job.posted
    ELSE Null

Parses(s) == s # Null /\ DateParse(s) # NaN

IsoTimestamps == {<<"2024-01-15T00:00:00.000Z">>, <<"2024-01-16T00:00:00.000Z">>}

C7_DatePosted ==
    \A p \in DOMAIN inv :
        /\ InUpsert(inv[p]) =>
             LET s == PostedDateString(CurrentJob(inv[p]))
                 d == inv[p].row.date_posted
             IN  /\ ~Parses(s) => d = Null
                 /\ Parses(s) =>
                      /\ d \in IsoTimestamps
                      /\ DateParse(d) = DateParse(s)
                 /\ (inv[p].pc = "upserted" /\ inv[p].error = Null) =>
                      \A r \in table :
                          KeyOf(r) = KeyOf(inv[p].row) => r.date_posted = d
        /\ inv[p].pc = "done" =>
             (inv[p].resp.body.ok \/ inv[p].upsertCalls = 0)

\* a posting whose posted-date string does not parse was written with a
\* null date, after one whose string needed normalizing
C7_Witness ==
    \E p \in DOMAIN inv :
        /\ inv[p].pc = "upserted" /\ inv[p].error = Null
        /\ PostedDateString(CurrentJob(inv[p])) = <<"3 days ago">>
        /\ \E r \in table : KeyOf(r) = KeyOf(inv[p].row) /\ r.date_posted = Null
        /\ \E r \in table : r.date_posted = <<"2024-01-15T00:00:00.000Z">>

-----------------------------------------------------------------------------
(* C8: a run ends with the failure response (ok = false) only when a secret *)
(* is missing; then no search request and no upsert was issued; with all    *)
(* three secrets present the run returns the ok = true summary, whatever    *)
(* the request body and whatever searches and upserts failed.               *)

SecretMissing(i) ==
    \E k \in DOMAIN i.env : i.env[k] = Null \/ i.env[k] = <<>>

C8_OnlyMissingSecretAborts ==
    \A p \in DOMAIN inv :
        inv[p].pc = "done" =>
            /\ SecretMissing(inv[p]) =>
                 /\ inv[p].resp.status = 500 /\ ~inv[p].resp.body.ok
                 /\ inv[p].requested = <<>> /\ inv[p].upsertCalls = 0
            /\ ~SecretMissing(inv[p]) =>
                 /\ inv[p].resp.status = 200 /\ inv[p].resp.body.ok

\* the same, for every request but the POST whose body is the JSON null
C8_ExceptNullBody ==
    \A p \in DOMAIN inv :
        (inv[p].pc = "done" /\ ~BodyIsNull(inv[p])) =>
            /\ SecretMissing(inv[p]) =>
                 /\ inv[p].resp.status = 500 /\ ~inv[p].resp.body.ok
                 /\ inv[p].requested = <<>> /\ inv[p].upsertCalls = 0
            /\ ~SecretMissing(inv[p]) =>
                 /\ inv[p].resp.status = 200 /\ inv[p].resp.body.ok

-----------------------------------------------------------------------------
(* C9: a run that passes the configuration check requests every pair of     *)
(* effective titles x effective locations exactly once, in loop order, and  *)
(* ends with searched_requests = titles * locations.  The effective lists   *)
(* are those of the request: the body's when it gives them, the defaults    *)
(* when it does not.                                                        *)

\* the object the request carries, {} when it carries none
RequestObject(req) ==
    IF req.method = "POST" /\ req.json = "object" THEN req.body ELSE EmptyBody

ExpectedPairs(req) ==
    LET ts == EffectiveTitles(RequestObject(req))
        ls == EffectiveLocations(RequestObject(req))
    IN  [k \in 1..(Len(ts) * Len(ls)) |->
            <<ts[((k - 1) \div Len(ls)) + 1], ls[((k - 1) % Len(ls)) + 1]>>]

\* while it runs, the requests issued are a prefix of the expected pairs
RequestsOnceInOrder(i) ==
    /\ Len(i.requested) <= Len(ExpectedPairs(i.req))
    /\ i.requested = SubSeq(ExpectedPairs(i.req), 1, Len(i.requested))

C9_EveryPairRequestedOnce ==
    \A p \in DOMAIN inv :
        /\ RequestsOnceInOrder(inv[p])
        /\ (inv[p].pc = "done" /\ ~SecretMissing(inv[p])) =>
             /\ inv[p].requested = ExpectedPairs(inv[p].req)
             /\ "searched_requests" \in DOMAIN inv[p].resp.body
             /\ inv[p].resp.body.searched_requests = Len(ExpectedPairs(inv[p].req))

\* the same, for every request but the POST whose body is the JSON null
C9_ExceptNullBody ==
    \A p \in DOMAIN inv :
        /\ RequestsOnceInOrder(inv[p])
        /\ (inv[p].pc = "done" /\ ~SecretMissing(inv[p]) /\ ~BodyIsNull(inv[p])) =>
             /\ inv[p].requested = ExpectedPairs(inv[p].req)
             /\ inv[p].resp.body.searched_requests = Len(ExpectedPairs(inv[p].req))

-----------------------------------------------------------------------------
(* C10: the effective cap lies in 1..100 and is 25 when the body has no     *)
(* max_results_per_title; of every pair at most cap postings are processed  *)
(* (attempted + skipped_no_url <= cap), and the row handed to storage is    *)
(* the row of one of the first cap postings the search returned.            *)

InPair(i) == i.pc \in {"fetch", "fetched", "jobs", "upsert", "upserted"}

C10_Cap ==
    \A p \in DOMAIN inv :
        HasSummary(inv[p]) =>
            LET i == inv[p]
                cap == i.summary.max_results_per_title
            IN  /\ cap \in 1..100
                /\ cap = i.maxResults
                /\ "max_results_per_title" \notin DOMAIN i.body => cap = 25
                /\ "max_results_per_title" \in DOMAIN i.body =>
                     /\ i.body.max_results_per_title \in 1..100
                          => cap = i.body.max_results_per_title
                     /\ i.body.max_results_per_title < 1 => cap = 1
                     /\ i.body.max_results_per_title > 100 => cap = 100
                /\ InPair(i) => i.per.attempted + i.per.skipped_no_url <= cap
                /\ \A k \in 1..Len(i.summary.per_query_counts) :
                     i.summary.per_query_counts[k].attempted
                       + i.summary.per_query_counts[k].skipped_no_url <= cap
                /\ InUpsert(i) =>
                     /\ i.ji <= cap
                     /\ i.ji <= Len(JobsOf(i.res))
                     /\ i.row = BuildRow(JobsOf(i.res)[i.ji],
                                         pickJobUrl(JobsOf(i.res)[i.ji]),
                                         i.locations[i.li])

\* a search returned more postings than the cap and exactly cap of them were
\* processed
C10_Witness ==
    \E p \in DOMAIN inv :
        /\ inv[p].pc = "jobs" /\ inv[p].ji > Len(inv[p].slice)
        /\ inv[p].per.fetched > inv[p].maxResults
        /\ inv[p].per.attempted + inv[p].per.skipped_no_url = inv[p].maxResults
        /\ inv[p].per.upserted = inv[p].maxResults

-----------------------------------------------------------------------------
(* C11: the effective inputs of a run are the body's job_titles when that   *)
(* is a non-empty array, else the five default titles; the body's locations *)
(* trimmed and without blanks when that is a non-empty array, else the      *)
(* trimmed body.location when it is not blank, else the five default        *)
(* locations; a request that is not a POST, or whose body is not JSON, runs *)
(* with all defaults; the loops run over these lists and the summary echoes *)
(* them and the cap.                                                        *)

IsBlank(s) == \A k \in 1..Len(s) : s[k] = SP

TrimmedNonBlank(ls) ==
    SelectSeq([k \in 1..Len(ls) |-> Trim(ls[k])], LAMBDA s : ~IsBlank(s))

InputTitles(b) ==
    IF "job_titles" \in DOMAIN b /\ b.job_titles # <<>>
    THEN b.job_titles ELSE DEFAULT_TITLES

InputLocations(b) ==
    IF "locations" \in DOMAIN b /\ b.locations # <<>>
    THEN TrimmedNonBlank(b.locations)
    ELSE IF "location" \in DOMAIN b /\ ~IsBlank(b.location)
    THEN <<Trim(b.location)>>
    ELSE DEFAULT_LOCATIONS

\* the run is past the configuration check and the input resolution
InputsResolved(i) ==
    /\ i.pc \notin {"idle", "env", "body", "inputs"}
    /\ ~SecretMissing(i)

EchoesInputs(i) ==
    LET b == RequestObject(i.req) IN
        /\ HasSummary(i)
        /\ i.jobTitles = InputTitles(b)
        /\ i.locations = InputLocations(b)
        /\ i.summary.requested_titles = InputTitles(b)
        /\ i.summary.requested_locations = InputLocations(b)
        /\ i.summary.max_results_per_title = ClampMaxResults(b)
        /\ (i.req.method # "POST" \/ i.req.json = "invalid") =>
             /\ i.summary.requested_titles = DEFAULT_TITLES
             /\ i.summary.requested_locations = DEFAULT_LOCATIONS
             /\ i.summary.max_results_per_title = DefaultMaxResults
        /\ i.pc = "done" => i.resp.body = i.summary

C11_EffectiveInputs ==
    \A p \in DOMAIN inv : InputsResolved(inv[p]) => EchoesInputs(inv[p])

\* the same, for every request but the POST whose body is the JSON null
C11_ExceptNullBody ==
    \A p \in DOMAIN inv :
        (InputsResolved(inv[p]) /\ ~BodyIsNull(inv[p])) => EchoesInputs(inv[p])

\* a run over trimmed locations of the body, a blank one removed
C11_Witness ==
    \E p \in DOMAIN inv :
        /\ inv[p].pc = "done" /\ ~BodyIsNull(inv[p]) /\ InputsResolved(inv[p])
        /\ inv[p].resp.body.requested_locations = <<Seattle, Remote>>
        /\ inv[p].req.body.locations = << <<SP, "Seattle, WA">>, <<SP>>, Remote >>

-----------------------------------------------------------------------------
(* C12: in the summary a run returns, fetched_jobs_total is the sum of the  *)
(* per-pair fetched, upsert_success the sum of the per-pair upserted,       *)
(* skipped_no_url the sum of the per-pair skipped_no_url, and               *)
(* per_query_counts holds one record per requested pair: its length is      *)
(* searched_requests and its k-th record is of the k-th pair requested.     *)

RECURSIVE SumOf(_, _)
SumOf(recs, field) ==
    IF recs = <<>> THEN 0 ELSE Head(recs)[field] + SumOf(Tail(recs), field)

TotalsAreSums(s) ==
    /\ s.fetched_jobs_total = SumOf(s.per_query_counts, "fetched")
    /\ s.upsert_success = SumOf(s.per_query_counts, "upserted")
    /\ s.skipped_no_url = SumOf(s.per_query_counts, "skipped_no_url")
    /\ Len(s.per_query_counts) = s.searched_requests

ReturnedSummary(i) == i.pc = "done" /\ i.resp.status = 200

C12_TotalsAreSums ==
    \A p \in DOMAIN inv :
        ReturnedSummary(inv[p]) =>
            /\ TotalsAreSums(inv[p].resp.body)
            /\ Len(inv[p].requested) = inv[p].resp.body.searched_requests
            /\ \A k \in 1..Len(inv[p].requested) :
                 << inv[p].resp.body.per_query_counts[k].query,
                    inv[p].resp.body.per_query_counts[k].location >>
                   = inv[p].requested[k]

\* a returned summary over a failed pair and a pair that fetched more
\* postings than it upserted
C12_Witness ==
    \E p \in DOMAIN inv :
        /\ ReturnedSummary(inv[p])
        /\ inv[p].resp.body.searched_requests >= 2
        /\ inv[p].resp.body.serpapi_errors # <<>>
        /\ inv[p].resp.body.fetched_jobs_total >= 2
        /\ inv[p].resp.body.upsert_success >= 1

-----------------------------------------------------------------------------
(* C13: end to end, a run over the single pair ("Backend Engineer",         *)
(* "Seattle, WA") whose search returns two postings with URLs, the first    *)
(* with a native id, the second without one and with a posted date that     *)
(* does not parse, and whose upserts succeed, returns fetched_jobs_total =  *)
(* 2 and upsert_success = 2; the two rows exist, the first under the native *)
(* id, the second with source_job_id equal to its job_url and a null        *)
(* date_posted; nothing else was written.                                   *)

HasNativeId(job) == "job_id" \in DOMAIN job /\ ~IsBlank(job.job_id)

HasUnparseableDate(job) ==
    /\ \E k \in {"posted_at_date", "posted_at", "posted"} : k \in DOMAIN job
    /\ parseDatePosted(job) = Null

\* the run of the scenario, returned
TwoPostingRun(i) ==
    /\ ReturnedSummary(i)
    /\ i.resp.body.requested_titles = <<BE>>
    /\ i.resp.body.requested_locations = <<Seattle>>
    /\ i.resp.body.max_results_per_title >= 2
    /\ i.resp.body.upsert_errors = <<>>
    /\ Len(i.responses) = 1
    /\ i.responses[1].kind = "json"
    /\ LET jobs == JobsOf(i.responses[1]) IN
         /\ Len(jobs) = 2
         /\ Truthy(pickJobUrl(jobs[1])) /\ Truthy(pickJobUrl(jobs[2]))
         /\ HasNativeId(jobs[1])
         /\ "job_id" \notin DOMAIN jobs[2]
         /\ HasUnparseableDate(jobs[2])

C13_EndToEnd ==
    \A p \in DOMAIN inv :
        TwoPostingRun(inv[p]) =>
            LET jobs == JobsOf(inv[p].responses[1])
                s == inv[p].resp.body
            IN  /\ s.searched_requests = 1
                /\ s.fetched_jobs_total = 2
                /\ s.upsert_success = 2
                /\ s.skipped_no_url = 0
                /\ Len(inv[p].accepted) = 2
                /\ \E r1 \in table, r2 \in table :
                     /\ r1 # r2
                     /\ r1.source_job_id = jobs[1].job_id
                     /\ r1.job_url = pickJobUrl(jobs[1])
                     /\ r2.job_url = pickJobUrl(jobs[2])
                     /\ r2.source_job_id = r2.job_url
                     /\ r2.date_posted = Null
                     /\ r2.serpapi_job_id = Null
                /\ runs = 1 => Cardinality(table) = 2

\* the scenario happened as the first run
C13_Witness ==
    \E p \in DOMAIN inv :
        /\ TwoPostingRun(inv[p])
        /\ runs = 1
        /\ JobsOf(inv[p].responses[1]) = <<P1, P2>>
        /\ \E r \in table : r.source_job_id = <<"u2">> /\ r.date_posted = Null

-----------------------------------------------------------------------------
(* C16: an invocation has at most one search request or upsert outstanding; *)
(* when the search request of a pair is issued, every upsert issued before  *)
(* has been answered; and the rows of a pair are handed to storage in the   *)
(* order in which the search returned their postings.                       *)

\* the rows of the postings with a URL, in the order of the postings
RECURSIVE RowsOf(_, _)
RowsOf(jobs, location) ==
    IF jobs = <<>> THEN <<>>
    ELSE LET rest == RowsOf(Tail(jobs), location)
             jobUrl == pickJobUrl(Head(jobs))
         IN  IF Truthy(jobUrl)
             THEN <<BuildRow(Head(jobs), jobUrl, location)>> \o rest
             ELSE rest

\* upserts answered so far, accepted or rejected
Answered(i) ==
    IF ~HasSummary(i) THEN 0
    ELSE i.summary.upsert_success + Len(i.summary.upsert_errors)
             + (IF i.pc = "upserted" THEN 1 ELSE 0)

OneAtATime(i) ==
    /\ i.outstanding \in {0, 1}
    /\ i.outstanding = 1 <=> i.pc \in {"fetch", "upsert"}
    /\ i.upsertCalls - Answered(i) = (IF i.pc = "upsert" THEN 1 ELSE 0)

\* the postings of the current response the row loop has taken up
TakenUp(i) ==
    SubSeq(JobsOf(i.res), 1, IF i.pc = "jobs" THEN i.ji - 1 ELSE i.ji)

InReturnedOrder(i) ==
    i.pc \in {"jobs", "upsert", "upserted"} =>
        i.sent = RowsOf(TakenUp(i), i.locations[i.li])

\* in particular, while a search request is outstanding every upsert issued
\* before it has been answered
C16_Sequential ==
    \A p \in DOMAIN inv :
        /\ OneAtATime(inv[p])
        /\ inv[p].pc \in {"loop", "fetch"} =>
               inv[p].upsertCalls = Answered(inv[p])
        /\ InReturnedOrder(inv[p])

\* the search of a second pair is outstanding after the upsert of the first
\* pair was answered
C16_Witness ==
    \E p \in DOMAIN inv :
        /\ inv[p].pc = "fetch" /\ inv[p].outstanding = 1
        /\ Len(inv[p].requested) = 2
        /\ inv[p].upsertCalls = 1 /\ Answered(inv[p]) = 1

\* two rows of one pair were handed to storage, the second after a posting
\* without URL was passed over
C16_OrderReached ==
    \E p \in DOMAIN inv :
        /\ inv[p].pc = "upsert" /\ Len(inv[p].sent) = 2
        /\ inv[p].sent[1] # inv[p].sent[2]

-----------------------------------------------------------------------------
(* C18: the job_url of a row is the first non-empty value among job_url,    *)
(* apply_options[0].link, related_links[0].link, share_link and             *)
(* google_jobs_link of its posting, in this order: the candidate used is    *)
(* non-empty and every candidate before it is empty or absent.              *)

UrlFieldOrder ==
    <<"job_url", "apply_link", "related_link", "share_link", "google_jobs_link">>

EmptyOrAbsent(job, field) == field \notin DOMAIN job \/ job[field] = <<>>

\* the row's URL is the k-th candidate of the posting
UsesCandidate(job, row, k) ==
    /\ ~EmptyOrAbsent(job, UrlFieldOrder[k])
    /\ row.job_url = job[UrlFieldOrder[k]]
    /\ \A j \in 1..(k - 1) : EmptyOrAbsent(job, UrlFieldOrder[j])

C18_FirstNonEmptyUrl ==
    \A p \in DOMAIN inv :
        InUpsert(inv[p]) =>
            /\ \E k \in 1..Len(UrlFieldOrder) :
                 UsesCandidate(CurrentJob(inv[p]), inv[p].row, k)
            /\ \A k \in 1..Len(UrlFieldOrder) :
                 (/\ ~EmptyOrAbsent(CurrentJob(inv[p]), UrlFieldOrder[k])
                  /\ \A j \in 1..(k - 1) :
                       EmptyOrAbsent(CurrentJob(inv[p]), UrlFieldOrder[j]))
                     => inv[p].row.job_url = CurrentJob(inv[p])[UrlFieldOrder[k]]

\* a row took related_links[0].link: job_url is empty, apply_options is
\* absent and google_jobs_link, which is set, comes later
C18_Witness ==
    \E p \in DOMAIN inv :
        /\ InUpsert(inv[p])
        /\ UsesCandidate(CurrentJob(inv[p]), inv[p].row, 3)
        /\ "job_url" \in DOMAIN CurrentJob(inv[p])
        /\ ~EmptyOrAbsent(CurrentJob(inv[p]), "google_jobs_link")
        /\ inv[p].row.job_url # CurrentJob(inv[p]).google_jobs_link

-----------------------------------------------------------------------------
(* C19: the date_posted of a row is the timestamp of the first of           *)
(* posted_at_date, posted_at, posted, in this order, that parses, and null  *)
(* only when none of them parses: an earlier field that is present but      *)
(* empty or unparseable does not hide a later field that parses.            *)

DateFieldOrder == <<"posted_at_date", "posted_at", "posted">>

ParsesField(job, field) == field \in DOMAIN job /\ DateParse(job[field]) # NaN

\* the fields of the posting that parse, by their place in the order
ParsingFields(job) ==
    {k \in 1..Len(DateFieldOrder) : ParsesField(job, DateFieldOrder[k])}

FirstParseableDate(job) ==
    IF ParsingFields(job) = {} THEN Null
    ELSE LET k == CHOOSE k \in ParsingFields(job) :
                      \A j \in ParsingFields(job) : k <= j
         IN  toISOString(DateParse(job[DateFieldOrder[k]]))

C19_FirstParseableDate ==
    \A p \in DOMAIN inv :
        InUpsert(inv[p]) =>
            inv[p].row.date_posted = FirstParseableDate(CurrentJob(inv[p]))

\* what the code does instead: only the first field that is present is
\* parsed
C19_FirstPresentDate ==
    \A p \in DOMAIN inv :
        InUpsert(inv[p]) =>
            LET job == CurrentJob(inv[p])
                present == {k \in 1..Len(DateFieldOrder) : DateFieldOrder[k] \in DOMAIN job}
            IN  IF present = {} THEN inv[p].row.date_posted = Null
                ELSE LET k == CHOOSE k \in present : \A j \in present : k <= j
                     IN  inv[p].row.date_posted =
                             (IF ParsesField(job, DateFieldOrder[k])
                              THEN toISOString(DateParse(job[DateFieldOrder[k]]))
                              ELSE Null)

-----------------------------------------------------------------------------
(* C20: every row handed to storage has source "serpapi_google_jobs", a     *)
(* non-empty job_url, source_job_id, company, role and location; company    *)
(* and role are "Unknown" when the posting gives none, location is the      *)
(* pair's location when the posting gives none; and serpapi_job_id is       *)
(* non-null exactly when source_job_id is the posting's native id rather    *)
(* than its URL.                                                            *)

GivesNone(job, fields) ==
    \A f \in fields : f \notin DOMAIN job \/ IsBlank(job[f])

RowFieldsFilled(job, row, location) ==
    /\ row.source = <<"serpapi_google_jobs">>
    /\ row.job_url # Null /\ row.job_url # <<>>
    /\ row.source_job_id # Null /\ row.source_job_id # <<>>
    /\ row.company # Null /\ ~IsBlank(row.company)
    /\ row.role # Null /\ ~IsBlank(row.role)
    /\ row.location # Null /\ ~IsBlank(row.location)
    /\ GivesNone(job, {"company_name", "company"}) => row.company = <<"Unknown">>
    /\ GivesNone(job, {"title"}) => row.role = <<"Unknown">>
    /\ GivesNone(job, {"location"}) => row.location = location

KeyedByNativeId(job, row) ==
    "job_id" \in DOMAIN job /\ row.source_job_id = job.job_id

C20_RowShape ==
    \A p \in DOMAIN inv :
        InUpsert(inv[p]) =>
            /\ RowFieldsFilled(CurrentJob(inv[p]), inv[p].row, Location(p))
            /\ inv[p].row.serpapi_job_id # Null
                 <=> KeyedByNativeId(CurrentJob(inv[p]), inv[p].row)

\* the same, with the native-id column left aside for postings whose job_id
\* is blank
C20_ExceptBlankId ==
    \A p \in DOMAIN inv :
        InUpsert(inv[p]) =>
            /\ RowFieldsFilled(CurrentJob(inv[p]), inv[p].row, Location(p))
            /\ ("job_id" \notin DOMAIN CurrentJob(inv[p])
                  \/ ~IsBlank(CurrentJob(inv[p]).job_id)) =>
                 (inv[p].row.serpapi_job_id # Null
                    <=> KeyedByNativeId(CurrentJob(inv[p]), inv[p].row))

\* a row keyed by its URL that carries a blank serpapi_job_id
C20_BlankIdStored ==
    \E p \in DOMAIN inv :
        /\ InUpsert(inv[p])
        /\ inv[p].row.serpapi_job_id = <<SP>>
        /\ inv[p].row.source_job_id = inv[p].row.job_url

-----------------------------------------------------------------------------
(* C14: when two invocations run at the same time and their upserts         *)
(* interleave in any order, in every reachable state no two rows share      *)
(* (source, source_job_id), every key an upsert was accepted for has its    *)
(* row, and that row holds the values of the upsert for the key that        *)
(* storage executed last, whichever invocation sent it.                     *)

\* the accepted upserts of all invocations
AllAccepted == UNION {{inv[p].accepted[k] : k \in 1..Len(inv[p].accepted)} : p \in DOMAIN inv}

\* the accepted upsert for the key of w that storage executed last
IsLastFor(w) ==
    \A v \in AllAccepted : KeyOf(v.row) = KeyOf(w.row) => v.at <= w.at

SameColumns(r, row) ==
    /\ r.source = row.source /\ r.source_job_id = row.source_job_id
    /\ r.serpapi_job_id = row.serpapi_job_id
    /\ r.company = row.company /\ r.role = row.role
    /\ r.location = row.location /\ r.job_url = row.job_url
    /\ r.date_posted = row.date_posted

C14_LastWriteWins ==
    /\ \A r1 \in table, r2 \in table : KeyOf(r1) = KeyOf(r2) => r1 = r2
    /\ \A r \in table : \E w \in AllAccepted : KeyOf(w.row) = KeyOf(r)
    /\ \A w \in AllAccepted :
         IsLastFor(w) =>
             \E r \in table : SameColumns(r, w.row)

\* both invocations have returned; each wrote a key the other wrote too, with
\* other values; the upserts interleaved, and for one key the first
\* invocation's write came last, for another the second's
C14_Witness ==
    /\ \A p \in DOMAIN inv : inv[p].pc = "done"
    /\ DOMAIN inv = Overlapping
    /\ Len(inv[1].accepted) = 2 /\ Len(inv[2].accepted) = 2
    /\ inv[1].accepted[1].at < inv[2].accepted[1].at
    /\ inv[2].accepted[1].at < inv[1].accepted[2].at
    /\ inv[1].accepted[2].at < inv[2].accepted[2].at
    /\ \E a \in 1..2, b \in 1..2 :
         /\ KeyOf(inv[1].accepted[a].row) = KeyOf(inv[2].accepted[b].row)
         /\ inv[1].accepted[a].row # inv[2].accepted[b].row
         /\ inv[1].accepted[a].at > inv[2].accepted[b].at
         /\ \E r \in table : SameColumns(r, inv[1].accepted[a].row)
    /\ \E a \in 1..2, b \in 1..2 :
         /\ KeyOf(inv[1].accepted[a].row) = KeyOf(inv[2].accepted[b].row)
         /\ inv[1].accepted[a].row # inv[2].accepted[b].row
         /\ inv[1].accepted[a].at < inv[2].accepted[b].at
         /\ \E r \in table : SameColumns(r, inv[2].accepted[b].row)

-----------------------------------------------------------------------------
(* C17: when the job is run a second time with the same request, the same   *)
(* secrets and the same search responses, and every upsert of both runs is  *)
(* accepted, the second run leaves the open_jobs table exactly as the first *)
(* run left it: the same rows, with the same ids and the same values.       *)

\* every upsert the invocation issued was accepted
AllUpsertsAccepted(i) == i.upsertCalls = Len(i.accepted)

C17_SecondRunChangesNothing ==
    \A p \in DOMAIN inv :
        (/\ inv[p].pc = "done" /\ IsRepeat(inv[p])
         /\ inv[p].prev.clean /\ AllUpsertsAccepted(inv[p])) =>
            /\ inv[p].responses = inv[p].prev.responses
            /\ table = inv[p].prev.table

\* a second run has returned in which a key was written twice, with
\* different values, so that the table differed from the first run's on the
\* way
C17_Witness ==
    \E p \in DOMAIN inv :
        /\ inv[p].pc = "done" /\ IsRepeat(inv[p])
        /\ inv[p].prev.clean /\ AllUpsertsAccepted(inv[p])
        /\ Len(inv[p].accepted) = 2
        /\ KeyOf(inv[p].accepted[1].row) = KeyOf(inv[p].accepted[2].row)
        /\ inv[p].accepted[1].row # inv[p].accepted[2].row
        /\ table = inv[p].prev.table /\ table # {}

-----------------------------------------------------------------------------
(* C15: a call of applicationsApi goes on only with the id of the user      *)
(* signed in when it asks; every row its query returns, changes or deletes  *)
(* has that id as user_id, and the row create inserts carries it; so the    *)
(* rows of another user are neither returned nor changed nor deleted,       *)
(* whatever calls are made.                                                 *)

\* the rows the step of the query removed, changed or added
Touched == (applications \ applications') \cup (applications' \ applications)

\* the rows, before or after the step, an entry of the result stands for
Returned(k) ==
    {r \in applications \cup applications' : r.id = call'.content[k].id}

C15_CallStep ==
    /\ (call.pc = "called" /\ call'.pc = "query") =>
           call'.userId = session /\ session \in Users
    /\ call.pc = "query" =>
           /\ call'.userId = call.userId
           /\ \A r \in Touched : r.user_id = call.userId
           /\ \A r \in applications :
                  r.user_id # call.userId => r \in applications'
           /\ call'.pc = "returned" =>
                  \A k \in 1..Len(call'.content) :
                      /\ Returned(k) # {}
                      /\ \A r \in Returned(k) : r.user_id = call.userId
    /\ call.pc # "query" => applications' = applications

C15_OwnRowsOnly == [][C15_CallStep]_vars

\* a user's update named the id of another user's application and changed
\* nothing
C15_Witness ==
    /\ call.pc = "threw" /\ call.op = "update" /\ call.userId \in Users
    /\ call.error = <<"PGRST116">>
    /\ \E r \in applications :
           /\ r.id = call.id /\ r.user_id # call.userId
           /\ r \in EarlierApplications

\* a user's delete named the id of another user's application and returned
\* with the row still there; a user's getAll returned the user's rows alone
C15_DeleteReached ==
    /\ call.pc = "returned" /\ call.op = "delete"
    /\ \E r \in applications : r.id = call.id /\ r.user_id # call.userId
C15_GetAllReached ==
    /\ call.pc = "returned" /\ call.op = "getAll" /\ call.arg = EmptyBody
    /\ Len(call.content) = 2
    /\ \E r \in applications : r.user_id # call.userId

-----------------------------------------------------------------------------
(* C24: every per-pair record pushed to per_query_counts adds up.  For a    *)
(* pair whose search succeeded, attempted + skipped_no_url is the smaller   *)
(* of fetched and the cap, and upserted plus the number of upsert_errors    *)
(* recorded for the pair is attempted; for a pair whose search failed,      *)
(* fetched, attempted, upserted and skipped_no_url are all 0.               *)

\* the upsert errors the summary s holds for the pair of rec
ErrorsOf(s, rec) ==
    Cardinality({k \in 1..Len(s.upsert_errors) :
                    /\ s.upsert_errors[k].query = rec.query
                    /\ s.upsert_errors[k].location = rec.location})

PairAddsUp(i, rec) ==
    IF FailedRec(rec)
    THEN /\ rec.fetched = 0
         /\ rec.attempted = 0
         /\ rec.upserted = 0
         /\ rec.skipped_no_url = 0
    ELSE /\ rec.attempted + rec.skipped_no_url = Min(rec.fetched, i.maxResults)
         /\ rec.upserted + ErrorsOf(i.summary, rec) = rec.attempted

C24_PerPairCounts ==
    \A p \in DOMAIN inv :
        HasSummary(inv[p]) =>
            \A k \in 1..Len(inv[p].summary.per_query_counts) :
                PairAddsUp(inv[p], inv[p].summary.per_query_counts[k])

\* a returned summary with a pair that fetched two postings, skipped one
\* for want of a URL and had the upsert of the other rejected
C24_Witness ==
    \E p \in DOMAIN inv :
        /\ ReturnedSummary(inv[p])
        /\ \E k \in 1..Len(inv[p].resp.body.per_query_counts) :
             LET rec == inv[p].resp.body.per_query_counts[k] IN
               /\ rec.fetched = 2
               /\ rec.skipped_no_url = 1
               /\ rec.attempted = 1
               /\ rec.upserted = 0
               /\ ErrorsOf(inv[p].resp.body, rec) = 1

\* a returned summary with a failed pair and a pair that fetched more
\* postings than the cap and upserted one
C24_CapAndFailureReached ==
    \E p \in DOMAIN inv :
        /\ ReturnedSummary(inv[p])
        /\ \E k \in 1..Len(inv[p].resp.body.per_query_counts) :
             FailedRec(inv[p].resp.body.per_query_counts[k])
        /\ \E k \in 1..Len(inv[p].resp.body.per_query_counts) :
             LET rec == inv[p].resp.body.per_query_counts[k] IN
               /\ rec.fetched > inv[p].maxResults
               /\ rec.upserted = 1

-----------------------------------------------------------------------------
(* C25: every run that passes the configuration check issues at least one   *)
(* search request: for every request body the effective title list and the  *)
(* effective location list are both non-empty, a locations override that    *)
(* yields no usable location falling back to the default locations.         *)

\* the run has ended past the configuration check
EndedConfigured(i) == i.pc = "done" /\ ~SecretMissing(i)

C25_AtLeastOneSearch ==
    \A p \in DOMAIN inv :
        EndedConfigured(inv[p]) =>
            /\ inv[p].requested # <<>>
            /\ EffectiveTitles(RequestObject(inv[p].req)) # <<>>
            /\ EffectiveLocations(RequestObject(inv[p].req)) # <<>>

\* the body gives a locations array none of whose entries is usable
OnlyBlankLocations(b) ==
    /\ "locations" \in DOMAIN b
    /\ b.locations # <<>>
    /\ \A k \in 1..Len(b.locations) : IsBlank(b.locations[k])

\* the same, for every request but the POST whose body is the JSON null and
\* the POST whose locations array holds nothing usable
C25_ExceptBlankLocations ==
    \A p \in DOMAIN inv :
        (/\ EndedConfigured(inv[p])
         /\ ~BodyIsNull(inv[p])
         /\ ~OnlyBlankLocations(RequestObject(inv[p].req))) =>
            /\ inv[p].requested # <<>>
            /\ inv[p].jobTitles # <<>>
            /\ inv[p].locations # <<>>

\* a run over a locations array of blanks returns the summary of no search
C25_BlankLocationsReached ==
    \E p \in DOMAIN inv :
        /\ EndedConfigured(inv[p])
        /\ OnlyBlankLocations(RequestObject(inv[p].req))
        /\ inv[p].resp.status = 200
        /\ inv[p].resp.body.searched_requests = 0
        /\ inv[p].resp.body.requested_locations = <<>>
        /\ inv[p].requested = <<>>

-----------------------------------------------------------------------------
(* C26: a run only inserts or overwrites the open_jobs rows whose key       *)
(* (source, source_job_id) it upserts: no step deletes a row, a row with    *)
(* another key is left as it is, a row that appears or changes has the key  *)
(* of the upsert being executed, which is one of the keys the run has       *)
(* upserted, and the set of keys in the table only grows, across runs too.  *)

Keys(t) == {KeyOf(r) : r \in t}

\* the keys of the upserts storage has executed for the invocation
UpsertedKeys(i) == {KeyOf(i.accepted[k].row) : k \in 1..Len(i.accepted)}

\* invocation p has an upsert with key k pending, and has upserted k after
\* the step
UpsertsKey(p, k) ==
    /\ inv[p].pc = "upsert"
    /\ KeyOf(inv[p].row) = k
    /\ k \in UpsertedKeys(inv'[p])

C26_Step ==
    /\ Keys(table) \subseteq Keys(table')
    /\ Cardinality(table') >= Cardinality(table)
    /\ \A r \in table :
         r \in table' \/ \E p \in DOMAIN inv : UpsertsKey(p, KeyOf(r))
    /\ \A r \in table' :
         r \in table \/ \E p \in DOMAIN inv : UpsertsKey(p, KeyOf(r))

C26_OnlyUpsertedKeys == [][C26_Step]_vars

\* a second run has overwritten a row of the first with other values while
\* a row with another key, written by the first run, is still there
C26_Witness ==
    \E p \in DOMAIN inv :
        /\ runs = 2
        /\ inv[p].pc = "upserted"
        /\ inv[p].error = Null
        /\ inv[p].upsertCalls = 1
        /\ \E old \in inv[p].replaced : old \notin table
        /\ \E r \in table : KeyOf(r) # KeyOf(inv[p].row)

-----------------------------------------------------------------------------
(* C21: when every search request and every upsert is answered, every       *)
(* invocation eventually returns, with exactly one JSON response; the       *)
(* claim adds: after processing all pairs.  As the code stands the          *)
(* invocation that fails the configuration check, or dies on the body       *)
(* null, returns its one response without processing any pair; the          *)
(* invocation that returns the summary has processed all pairs.             *)

\* the invocation has returned, and it has a response exactly when returned
Responded(i) == i.pc = "done" /\ i.resp # NoResponse

\* the handler is inside its try block or before it, with no response yet
Pending(i) == i.pc \notin {"idle", "done"} /\ i.resp = NoResponse

\* the claim as stated: every invocation ends having processed all pairs
C21_ReturnsAfterAllPairs ==
    \A p \in Procs :
        (inv[p].pc = "env") ~>
            (/\ Responded(inv[p])
             /\ HasSummary(inv[p])
             /\ WholeBatchProcessed(inv[p]))

\* every invocation returns; a response exists exactly in a returned
\* invocation; the summary is returned after all pairs
C21_EventuallyReturns ==
    /\ \A p \in Procs :
         (inv[p].pc = "env") ~>
             (/\ Responded(inv[p])
              /\ inv[p].resp.status = 200 =>
                   /\ HasSummary(inv[p])
                   /\ WholeBatchProcessed(inv[p])
                   /\ inv[p].resp.body = inv[p].summary)
    /\ [](\A p \in Procs :
            /\ inv[p].pc = "done" <=> inv[p].resp # NoResponse
            /\ inv[p].pc \notin {"idle", "done"} => Pending(inv[p]))

\* an invocation has returned the summary of two pairs, one failed search
\* and one rejected upsert behind it
C21_Witness ==
    \E p \in Procs :
        /\ Responded(inv[p])
        /\ inv[p].resp.status = 200
        /\ Len(inv[p].requested) >= 2
        /\ inv[p].resp.body.serpapi_errors # <<>>
        /\ inv[p].resp.body.upsert_errors # <<>>
        /\ WholeBatchProcessed(inv[p])

\* an invocation has returned the failure response without any pair
C21_FailureResponseReached ==
    \E p \in Procs :
        /\ Responded(inv[p])
        /\ inv[p].resp.status = 500
        /\ inv[p].requested = <<>>

-----------------------------------------------------------------------------
(* C23: every contact and every reminder that exists references an existing *)
(* application of the same user, and once applicationsApi.delete(id) has    *)
(* succeeded no contact and no reminder with application_id = id remains.   *)

\* the application a contact or reminder c names exists and is its user's
HasParent(c) ==
    \E a \in applications : a.id = c.application_id /\ a.user_id = c.user_id

\* applicationsApi.delete(id) has returned { ok: true }
DeleteSucceeded == call.pc = "returned" /\ call.op = "delete"

C23_NoLifecycleOfTheirOwn ==
    /\ \A c \in contacts \cup reminders : HasParent(c)
    /\ DeleteSucceeded =>
           \A c \in contacts \cup reminders : c.application_id # call.id

\* a contact outlives the deletion of its application by the user of both
C23_OrphanAfterDelete ==
    /\ DeleteSucceeded
    /\ \E c \in contacts :
         /\ c.application_id = call.id
         /\ c.user_id = call.userId
         /\ c.id = 1
         /\ call.id = 1
    /\ \A a \in applications : a.id # call.id

\* a reminder was created for an application that is another user's
C23_CreatedForForeignApplication ==
    \E c \in reminders :
        \E a \in applications : a.id = c.application_id /\ a.user_id # c.user_id

-----------------------------------------------------------------------------
(* C22: after any sequence of drag-and-drop operations on the Kanban board, *)
(* every application in the cached list has one of the six statuses SAVED,  *)
(* APPLIED, OA, INTERVIEW, OFFER, REJECTED, and every status a drop has     *)
(* sent to the server, or is sending, is one of the six.                    *)

SixStatuses == {"SAVED", "APPLIED", "OA", "INTERVIEW", "OFFER", "REJECTED"}

C22_StatusesOfTheEnum ==
    /\ \A k \in 1..Len(cached) : cached[k].status \in SixStatuses
    /\ \A m \in mutations : m.status \in SixStatuses
    /\ \A r \in stored : r.status \in SixStatuses

\* two drops have moved the two cards to other columns, in the cache and on
\* the server, and both updates have succeeded
C22_Witness ==
    /\ drops = 2
    /\ mutations = {}
    /\ appsQuery.pc = "idle"
    /\ Len(cached) = 2
    /\ \A k \in 1..Len(cached) :
         \E r \in stored : /\ r.id = cached[k].id
                           /\ r.status = cached[k].status
                           /\ r.updated_at > BoardWrites
                           /\ r.status \notin {"SAVED", "INTERVIEW"}

-----------------------------------------------------------------------------
(* C27: after a drop has written its optimistic status into the cached      *)
(* list, if the status update fails on the server the cached list is        *)
(* eventually brought back to the status stored on the server: the cache    *)
(* does not stay diverged from the server.                                  *)

BoardIds == {r.id : r \in BoardRows}

\* the cache shows card id under another status than the server stores
Diverged(id) ==
    /\ cached # NoData
    /\ \E r \in stored : r.id = id /\ Card(id).status # r.status

\* the status update of a drop of card id has failed
UpdateFailed(id) == \E m \in mutations : m.id = id /\ m.pc = "failed"

C27_CacheFollowsServer ==
    \A id \in BoardIds : (UpdateFailed(id) /\ Diverged(id)) ~> ~Diverged(id)

\* the update of the only drop has failed and is forgotten, no fetch is
\* under way, and the cache still shows the status of the drop
C27_StaysDivergedReached ==
    /\ drops = 1
    /\ mutations = {}
    /\ appsQuery.pc = "idle"
    /\ activeId = NoCard
    /\ Diverged("a1")
    /\ Card("a1").status = "OFFER"
    /\ stored = BoardRows

-----------------------------------------------------------------------------
(* C28: dropping a card onto the column of the status it already has issues *)
(* no status update and changes nothing in the cached list; an update is    *)
(* issued only when the status of the drop target differs from the status   *)
(* the card has.                                                            *)

\* the mutations a step has issued
Issued == {m \in mutations' : m.pc = "sent" /\ m \notin mutations}

C28_Step ==
    /\ \A m \in Issued : m.status # Card(m.id).status
    /\ (\E m \in Issued : m.status = Card(m.id).status) => cached' = cached

C28_NoUpdateOnOwnColumn == [][C28_Step]_vars

\* what the drop handler does instead: every drop on a column issues one
\* update with the column's status, a drop outside the columns issues none,
\* and nothing else issues an update
C28_UpdateOnEveryColumnDrop ==
    [][/\ Cardinality(Issued) <= 1
       /\ Issued # {} <=> (drops' = drops + 1 /\ mutations' # mutations)
       /\ \A m \in Issued : /\ m.id = activeId
                            /\ m.status \in Droppables
                            /\ cached' = WithStatus(cached, m.id, m.status)]_vars

\* the first drop put card a1 on its own column SAVED and its update is on
\* its way to the server
C28_OwnColumnUpdateReached ==
    /\ drops = 1
    /\ \E m \in mutations :
         /\ m.pc = "sent"
         /\ m.id = "a1"
         /\ m.status = "SAVED"
         /\ Card("a1").status = "SAVED"
    /\ stored = BoardRows

\* the server has executed that update: the row's updated_at has moved
C28_OwnColumnWriteReached ==
    /\ drops = 1
    /\ \E r \in stored : r.id = "a1" /\ r.status = "SAVED" /\ r.updated_at > BoardWrites

-----------------------------------------------------------------------------
(* C29: in the AuthProvider, user is always the user of the current session *)
(* (both null or both set), loading never returns to true once it is false, *)
(* and after an auth-state-change event has delivered session S the         *)
(* provider's session stays S until the next event: the result of the       *)
(* initial getSession(), resolving later, never overwrites it with an older *)
(* session.                                                                 *)

UserOfSession(p) ==
    IF p.session = NoSession THEN p.user = NoUser
    ELSE p.user # NoUser /\ p.user = UserOf(p.session)

\* the session of the last event is the provider's
HoldsLastEvent ==
    (provider.mounted /\ lastEvent.n > 0) => provider.session = lastEvent.session

LoadingStaysFalse == ~provider.loading => ~provider'.loading

C29_SessionOfLastEvent ==
    /\ [](UserOfSession(provider) /\ HoldsLastEvent)
    /\ [][LoadingStaysFalse]_vars

\* the then-callback of getSession() ran after the last event
LateGetSession ==
    /\ getSessionCall.pc = "delivered"
    /\ getSessionCall.after = lastEvent.n

\* the same, but for the provider in which the result of getSession() was
\* delivered after the last event
C29_ExceptLateGetSession ==
    /\ [](UserOfSession(provider) /\ (~LateGetSession => HoldsLastEvent))
    /\ [][LoadingStaysFalse]_vars

\* an event delivered the session s3 of user B, supabase.auth holds it, and
\* the provider shows the older session s1 of user A that getSession() read
C29_OlderSessionReached ==
    /\ provider.mounted
    /\ lastEvent = [n |-> 1, session |-> "s3"]
    /\ authState = "s3"
    /\ LateGetSession
    /\ provider.session = "s1"
    /\ provider.user = "A"
    /\ ~provider.loading

-----------------------------------------------------------------------------
(* C30: in the paginated applications list, after any sequence of filter    *)
(* changes, page clicks and deletions, once the effects have settled        *)
(* currentPage lies in 1..totalPages with totalPages =                      *)
(* max(1, ceil(filtered count / 12)); every change of the search text, the  *)
(* status filter or the priority filter sets currentPage to 1; and the page *)
(* displayed is never empty while the filtered list is non-empty.           *)

Settled == ~effectPending

PageInRange ==
    /\ currentPage >= 1
    /\ currentPage <= Max(1, CeilDiv(Len(filteredApplications), 12))

PageNotEmpty ==
    filteredApplications # <<>> => paginatedApplications # <<>>

FilterChanged ==
    \/ filters'.searchQuery # filters.searchQuery
    \/ filters'.statusFilter # filters.statusFilter
    \/ filters'.priorityFilter # filters.priorityFilter

C30_PageFollowsTheList ==
    /\ [](Settled => PageInRange /\ PageNotEmpty)
    /\ [][FilterChanged => currentPage' = 1]_vars

\* a deletion emptied the third page, the effect snapped the page back to
\* the second, and the second page is shown in full
C30_Witness ==
    /\ Settled
    /\ snapped
    /\ deletions.n >= 1
    /\ Len(filteredApplications) = 2 * ITEMS_PER_PAGE
    /\ currentPage = 2
    /\ Len(paginatedApplications) = ITEMS_PER_PAGE

\* the status filter is set and the list shows page 1, the only page, with
\* every row found
C30_FilteredReached ==
    /\ Settled
    /\ filters.statusFilter = "SAVED"
    /\ totalPages = 1
    /\ currentPage = 1
    /\ paginatedApplications = filteredApplications
    /\ filteredApplications # <<>>

=============================================================================
